---- MODULE Spec2Model ----
(***************************************************************************)
(* Verification model of the Telegram-Archive live viewer back-end.        *)
(*                                                                         *)
(*   SpecListener : src/src/listener.py  MassOperationProtector and the    *)
(*                  TelegramListener event handlers / release loop.        *)
(*   SpecScope    : src/src/web/main.py  get_user_chat_ids and the read    *)
(*                  endpoints that enforce it.                             *)
(*   SpecWs       : src/src/web/main.py  ConnectionManager and the         *)
(*                  broadcast of handle_realtime_notification.             *)
(*   SpecAuth     : src/src/web/main.py  session table, login, logout,     *)
(*                  session validation and the clean-up task.              *)
(*   SpecLogin    : src/src/web/main.py  login requests of every kind      *)
(*                  against the rate limit.                                *)
(*                                                                         *)
(* Time is a discrete clock `now`; every datetime.now()/time.time() read   *)
(* inside one handler step returns the same instant.                       *)
(***************************************************************************)
EXTENDS Integers, Sequences, FiniteSets, TLC

\* ---------------------------------------------------------------------
\* Bounds of the model
\* ---------------------------------------------------------------------
MaxTime == 3
MaxOps == 3
MaxLimit == 2
MaxOffset == 3
\* main.py:396 has 10 and main.py:398 has 15; the model runs the same code
\* with smaller values of the two
_MAX_SESSIONS_PER_USER == 2
_LOGIN_RATE_LIMIT == 2
\* segments of the path of a /media request
MaxSegments == 4
MaxMessages == 3
\* main.py:395 with the default AUTH_SESSION_DAYS = 30, and main.py:399
AUTH_SESSION_SECONDS == 2592000
_LOGIN_RATE_WINDOW == 300
\* login requests a behaviour makes: enough to pass the rate limit
MaxLogins == _LOGIN_RATE_LIMIT + 1

VARIABLES
    now,                \* wall clock
    config,             \* listener configuration (threshold, window, delay, flags)
    _pending,           \* MassOperationProtector._pending (insertion-ordered dict)
    _blocked,           \* MassOperationProtector._blocked
    protector_stats,    \* MassOperationProtector.stats
    protector_running,  \* MassOperationProtector._running
    listener_running,   \* TelegramListener._running
    listener_stats,     \* TelegramListener.stats
    ready_ops,          \* _process_buffered_operations: ready_ops still to apply
    db_log,             \* storage calls made by the listener, in call order
    queued,             \* history: every queue_operation call, in call order
    chat_stats,         \* history: per-chat share of the protector counters
    display_chat_ids,   \* config.display_chat_ids, the master display filter
    stats_task,         \* the statistics scheduler task: where it stands, when it wakes
    caller,             \* the UserContext require_auth returns for the requests
    resp,               \* the last HTTP request handled and its response
    storage_calls,      \* storage methods that request invoked, in call order
    walk,               \* chats collected by a client paging through /api/chats
    active_connections, \* ws_manager.active_connections: dict entries in insertion order
    _allowed_chats,     \* ws_manager._allowed_chats, indexed like active_connections
    bcast,              \* the broadcast_to_chat call in progress, or the last one
    _sessions,          \* the session table, entries in insertion order
    _login_attempts,    \* ip -> timestamps of the recorded login attempts
    viewers,            \* storage: the viewer accounts, by username
    logins,             \* the login requests in flight, by slot
    login_count,        \* login requests started so far
    auth_resp           \* the response the step just taken sent, if it sent one

listener_vars ==
    <<config, _pending, _blocked, protector_stats, protector_running,
      listener_running, listener_stats, ready_ops, db_log, queued, chat_stats>>

scope_vars == <<display_chat_ids, stats_task, caller, resp, storage_calls, walk>>

ws_vars == <<active_connections, _allowed_chats, bcast>>

auth_vars == <<_sessions, _login_attempts, viewers, logins, login_count,
               auth_resp>>

web_vars == <<scope_vars, ws_vars, auth_vars>>

vars == <<now, listener_vars, web_vars>>

\* ---------------------------------------------------------------------
\* listener.py : chats and configuration
\* ---------------------------------------------------------------------
_tracked_chat_ids == {-1001, -1002}

UntrackedChat == -1003

\* event.chat_id = None (no chat has id 0)
NoChat == 0

EventChats == _tracked_chat_ids \cup {UntrackedChat}

\* configured values tried: mass_operation_threshold, _window_seconds, _buffer_delay
Thresholds == {1, 2, 3}

Windows == {1, 2}

Delays == {1, 2}

\* len(event.deleted_ids) of one MessageDeleted event
DeletedCounts == {1, 2}

\* every combination with at most one of LISTEN_EDITS / LISTEN_DELETIONS on,
\* and one configuration with both on
Configs ==
    {cfg \in [threshold : Thresholds,
              window_seconds : Windows,
              buffer_delay : Delays,
              listen_edits : BOOLEAN,
              listen_deletions : BOOLEAN] :
        (cfg.listen_edits /\ cfg.listen_deletions) =>
            (cfg.threshold = 2 /\ cfg.window_seconds = 2 /\ cfg.buffer_delay = 1)}

_should_process_chat(chat_id) == chat_id \in _tracked_chat_ids

\* ---------------------------------------------------------------------
\* The insertion-ordered dict _pending: a sequence of [chat_id, ops]
\* ---------------------------------------------------------------------
HasKey(p, c) == \E i \in 1..Len(p) : p[i].chat_id = c

KeyIdx(p, c) == CHOOSE i \in 1..Len(p) : p[i].chat_id = c

GetOps(p, c) == IF HasKey(p, c) THEN p[KeyIdx(p, c)].ops ELSE <<>>

SetKey(p, c, ops) ==
    IF HasKey(p, c)
    THEN [p EXCEPT ![KeyIdx(p, c)].ops = ops]
    ELSE Append(p, [chat_id |-> c, ops |-> ops])

DelKey(p, c) == SelectSeq(p, LAMBDA e : e.chat_id # c)

PendingChats(p) == {p[i].chat_id : i \in 1..Len(p)}

\* ---------------------------------------------------------------------
\* MassOperationProtector.is_blocked: the answer, and its side effect
\* (an expired block record is deleted on read)
\* ---------------------------------------------------------------------
StillBlocked_Mutant(t, blocked_until) == t <= blocked_until

StillBlocked(t, blocked_until) == t < blocked_until

is_blocked(blocked, chat_id, t) ==
    /\ chat_id \in DOMAIN blocked
    /\ StillBlocked(t, blocked[chat_id].blocked_until)

expire_block(blocked, chat_id, t) ==
    IF chat_id \in DOMAIN blocked /\ ~StillBlocked(t, blocked[chat_id].blocked_until)
    THEN [c \in (DOMAIN blocked) \ {chat_id} |-> blocked[c]]
    ELSE blocked

\* ---------------------------------------------------------------------
\* MassOperationProtector.queue_operation on a protector state
\*   S = [pending, blocked, stats, queued, chat_stats, ret]
\* ---------------------------------------------------------------------
BurstReached_Mutant(pending_count, threshold) == pending_count > threshold

BurstReached(pending_count, threshold) == pending_count >= threshold

\* a buffer that puts the newest operation of a chat first
append_Mutant(ops, op) == <<op>> \o ops

\* `self._pending[chat_id].append(op)`
append(ops, op) == Append(ops, op)

\* a burst that counts the operations buffered before the one that set it off
BurstDiscarded_Mutant(ops) == Len(ops) - 1

\* `discarded = len(self._pending[chat_id])`, taken after the append
BurstDiscarded(ops) == Len(ops)

LogEntry(S, S1, chat_id, t, ret) ==
    [id |-> Len(S.queued) + 1,
     chat_id |-> chat_id,
     timestamp |-> t,
     ret |-> ret,
     pending0 |-> Len(GetOps(S.pending, chat_id)),
     blocked0 |-> is_blocked(S.blocked, chat_id, t),
     bursts0 |-> S.chat_stats[chat_id].bursts,
     discarded0 |-> S.chat_stats[chat_id].discarded,
     bursts1 |-> S1.chat_stats[chat_id].bursts,
     discarded1 |-> S1.chat_stats[chat_id].discarded,
     pending1 |-> Len(GetOps(S1.pending, chat_id)),
     record1 |-> chat_id \in DOMAIN S1.blocked]

queue_operation(S, chat_id, operation_type, t) ==
    LET blocked == is_blocked(S.blocked, chat_id, t)
        b1 == expire_block(S.blocked, chat_id, t)
        op == [id |-> Len(S.queued) + 1,
               chat_id |-> chat_id,
               operation_type |-> operation_type,
               timestamp |-> t]
        p1 == SetKey(S.pending, chat_id, append(GetOps(S.pending, chat_id), op))
        pending_count == Len(GetOps(p1, chat_id))
        rejected ==
            [S EXCEPT !.stats.operations_discarded = @ + 1,
                      !.chat_stats[chat_id].discarded = @ + 1,
                      !.ret = FALSE]
        burst ==
            [S EXCEPT !.pending = DelKey(p1, chat_id),
                      !.blocked = [c \in (DOMAIN b1) \cup {chat_id} |->
                                      IF c = chat_id
                                      THEN [blocked_until |-> t + config.window_seconds,
                                            discarded |-> BurstDiscarded(GetOps(p1, chat_id))]
                                      ELSE b1[c]],
                      !.stats.bursts_detected = @ + 1,
                      !.stats.operations_discarded = @ + BurstDiscarded(GetOps(p1, chat_id)),
                      !.stats.chats_protected = @ \cup {chat_id},
                      !.chat_stats[chat_id].bursts = @ + 1,
                      !.chat_stats[chat_id].discarded = @ + BurstDiscarded(GetOps(p1, chat_id)),
                      !.ret = FALSE]
        accepted ==
            [S EXCEPT !.pending = p1, !.blocked = b1, !.ret = TRUE]
        S1 == IF blocked THEN rejected
              ELSE IF BurstReached(pending_count, config.threshold) THEN burst
              ELSE accepted
    IN [S1 EXCEPT !.queued = Append(S.queued, LogEntry(S, S1, chat_id, t, S1.ret))]

\* ---------------------------------------------------------------------
\* MassOperationProtector._process_pending
\* ---------------------------------------------------------------------
OldEnough_Mutant(timestamp, cutoff) == timestamp <= cutoff

OldEnough(timestamp, cutoff) == timestamp < cutoff

\* first loop: over list(self._pending.keys())
RECURSIVE collect_ready(_, _, _)
collect_ready(S, keys, t) ==
    IF keys = <<>> THEN S
    ELSE
      LET chat_id == Head(keys)
          cutoff == t - config.buffer_delay
          ops == GetOps(S.pending, chat_id)
          ready == SelectSeq(ops, LAMBDA op : OldEnough(op.timestamp, cutoff))
          remaining == SelectSeq(ops, LAMBDA op : ~OldEnough(op.timestamp, cutoff))
          b1 == expire_block(S.blocked, chat_id, t)
          S1 == IF is_blocked(S.blocked, chat_id, t)
                THEN [S EXCEPT !.stats.operations_discarded = @ + Len(ops),
                               !.chat_stats[chat_id].discarded = @ + Len(ops),
                               !.pending = DelKey(S.pending, chat_id)]
                ELSE IF ready # <<>>
                THEN [S EXCEPT !.blocked = b1,
                               !.ready = S.ready \o ready,
                               !.pending = IF remaining # <<>>
                                           THEN SetKey(S.pending, chat_id, remaining)
                                           ELSE DelKey(S.pending, chat_id)]
                ELSE [S EXCEPT !.blocked = b1]
      IN collect_ready(S1, Tail(keys), t)

\* second loop: over ready_ops
RECURSIVE filter_ready(_, _, _)
filter_ready(S, ops, t) ==
    IF ops = <<>> THEN S
    ELSE
      LET op == Head(ops)
          S1 == IF is_blocked(S.blocked, op.chat_id, t)
                THEN [S EXCEPT !.stats.operations_discarded = @ + 1,
                               !.chat_stats[op.chat_id].discarded = @ + 1]
                ELSE [S EXCEPT !.blocked = expire_block(S.blocked, op.chat_id, t),
                               !.stats.operations_applied = @ + 1,
                               !.result = Append(S.result, op)]
      IN filter_ready(S1, Tail(ops), t)

_process_pending(S, t) ==
    LET S0 == [pending |-> S.pending, blocked |-> S.blocked, stats |-> S.stats,
               queued |-> S.queued, chat_stats |-> S.chat_stats, ret |-> S.ret,
               ready |-> <<>>, result |-> <<>>]
        keys == [i \in 1..Len(S.pending) |-> S.pending[i].chat_id]
        S1 == collect_ready(S0, keys, t)
    IN filter_ready(S1, S1.ready, t)

\* ---------------------------------------------------------------------
\* Protector state as the handlers see it, and writing it back
\* ---------------------------------------------------------------------
Protector ==
    [pending |-> _pending, blocked |-> _blocked, stats |-> protector_stats,
     queued |-> queued, chat_stats |-> chat_stats, ret |-> TRUE]

StoreProtector(S) ==
    /\ _pending' = S.pending
    /\ _blocked' = S.blocked
    /\ protector_stats' = S.stats
    /\ queued' = S.queued
    /\ chat_stats' = S.chat_stats

\* =====================================================================
\* web/main.py: access scope of a caller and the endpoints that enforce it
\* =====================================================================
\* Optional[set[int]]: None, or a (possibly empty) set of chat ids
NoneSet == [is_none |-> TRUE, ids |-> {}]
SomeSet(ids) == [is_none |-> FALSE, ids |-> ids]

ScopeIds == {-1001, -1002, -1003}
\* a chat id no stored chat has
UnknownChat == -1004
RequestChatIds == ScopeIds \cup {UnknownChat}
OptionalScopes == {NoneSet} \cup {SomeSet(ids) : ids \in SUBSET ScopeIds}

\* UserContext as require_auth hands it to an endpoint
Users ==
    {[username |-> "admin", role |-> "master", allowed_chat_ids |-> NoneSet]} \cup
    {[username |-> "alice", role |-> "viewer", allowed_chat_ids |-> a] :
        a \in OptionalScopes}

\* the stored chats, in the order the storage adapter lists them
db_chats ==
    <<[id |-> -1001, archived |-> FALSE],
      [id |-> -1002, archived |-> TRUE],
      [id |-> -1003, archived |-> FALSE]>>

\* the `archived` query parameter: absent, true or false
ArchivedFilters == {"None", "true", "false"}

MatchesArchived(chat, archived) ==
    \/ archived = "None"
    \/ archived = "true" /\ chat.archived
    \/ archived = "false" /\ ~chat.archived

\* Python slice seq[offset : offset + limit]
Slice(seq, offset, limit) ==
    LET hi == IF offset + limit < Len(seq) THEN offset + limit ELSE Len(seq)
    IN IF offset + 1 > hi THEN <<>> ELSE SubSeq(seq, offset + 1, hi)

\* storage adapter: get_all_chats without limit, with limit/offset,
\* get_chat_count, get_archived_chat_count, get_chat_by_id
db_get_all_chats(archived) ==
    SelectSeq(db_chats, LAMBDA chat : MatchesArchived(chat, archived))

db_get_chats_page(archived, limit, offset) ==
    Slice(db_get_all_chats(archived), offset, limit)

db_get_chat_count(archived) == Len(db_get_all_chats(archived))

db_get_archived_chat_count == Len(db_get_all_chats("true"))

db_get_chat_by_id(chat_id) == \E k \in 1..Len(db_chats) : db_chats[k].id = chat_id

\* `master_filter = config.display_chat_ids or None`
master_filter(display) ==
    IF display.is_none \/ display.ids = {} THEN NoneSet ELSE display

ViewerScope_Mutant(allowed, display) ==
    IF allowed.ids \cap display.ids = {} THEN NoneSet
    ELSE SomeSet(allowed.ids \cap display.ids)

\* get_user_chat_ids, the viewer with both an own list and a master filter
ViewerScope(allowed, display) == SomeSet(allowed.ids \cap display.ids)

get_user_chat_ids(user, display) ==
    IF user.role = "master" THEN master_filter(display)
    ELSE IF user.allowed_chat_ids.is_none THEN master_filter(display)
    ELSE IF master_filter(display).is_none THEN user.allowed_chat_ids
    ELSE ViewerScope(user.allowed_chat_ids, master_filter(display))

ScopeDenies_Mutant(user_chat_ids, chat_id) ==
    user_chat_ids.ids # {} /\ chat_id \notin user_chat_ids.ids

\* `user_chat_ids is not None and chat_id not in user_chat_ids`
ScopeDenies(user_chat_ids, chat_id) ==
    ~user_chat_ids.is_none /\ chat_id \notin user_chat_ids.ids

IdList(chats) == [k \in 1..Len(chats) |-> chats[k].id]

RestrictedListing_Mutant(all_chats, user_chat_ids, limit, offset) ==
    LET page == Slice(all_chats, offset, limit)
        chats == SelectSeq(page, LAMBDA chat : chat.id \in user_chat_ids.ids)
    IN [chats |-> chats,
        total |-> Len(SelectSeq(all_chats, LAMBDA chat : chat.id \in user_chat_ids.ids))]

\* get_chats, the branch for a caller with chat restrictions:
\* filter, count, then paginate
RestrictedListing(all_chats, user_chat_ids, limit, offset) ==
    LET chats == SelectSeq(all_chats, LAMBDA chat : chat.id \in user_chat_ids.ids)
    IN [chats |-> Slice(chats, offset, limit), total |-> Len(chats)]

HasMore(offset, returned, total) == offset + returned < total

\* a request and its response; fields an endpoint does not have keep
\* the values of NoRequest
NoRequest ==
    [endpoint |-> "none", user |-> [username |-> "admin", role |-> "master",
                                    allowed_chat_ids |-> NoneSet],
     chat_id |-> 0, limit |-> 0, offset |-> 0, archived |-> "None",
     status |-> 0, chats |-> <<>>, total |-> 0, has_more |-> FALSE]

NoWalk == [active |-> FALSE, chats |-> <<>>]

\* the statistics scheduler before lifespan creates its task
NoTask == [pc |-> "none", next_run |-> 0, created |-> 0]

\* no HTTP request handled yet
ScopeIdle ==
    /\ display_chat_ids = NoneSet
    /\ stats_task = NoTask
    /\ caller = NoRequest.user
    /\ resp = NoRequest
    /\ storage_calls = <<>>
    /\ walk = NoWalk

\* =====================================================================
\* web/main.py: ConnectionManager
\* =====================================================================
\* WebSocket objects, numbered in the order they are accepted.  Entry ws of
\* active_connections is the dict entry of that object: a disconnect leaves
\* a hole at its place, a connect appends at the end (the order in which a
\* dict iterator meets the entries)
WebSockets == {1, 2, 3}
WsChats == {-1001, -1002}

NoBroadcast ==
    [status |-> "idle", chat_id |-> 0, size |-> 0, pos |-> 0,
     disconnected |-> <<>>, sent |-> <<>>, stable |-> {}]

\* ConnectionManager.__init__
WsIdle ==
    /\ active_connections = <<>>
    /\ _allowed_chats = <<>>
    /\ bcast = NoBroadcast

\* `websocket in self.active_connections`
IsConnected(conns, ws) == ws \in 1..Len(conns) /\ conns[ws].present

\* len(self.active_connections)
NumConnected(conns) == Cardinality({ws \in 1..Len(conns) : conns[ws].present})

\* broadcast_to_chat: the two tests a connection passes before send_json
Eligible(subscribed_chats, allowed, chat_id) ==
    /\ ~ScopeDenies(allowed, chat_id)
    /\ (chat_id \in subscribed_chats \/ subscribed_chats = {})

\* the dict iterator from position pos: the next entry that is sent to, 0 at
\* the end of the dict
RECURSIVE NextSend(_, _, _, _)
NextSend(conns, allowed_chats, pos, chat_id) ==
    IF pos >= Len(conns) THEN 0
    ELSE IF conns[pos + 1].present
            /\ Eligible(conns[pos + 1].subscribed_chats, allowed_chats[pos + 1], chat_id)
    THEN pos + 1
    ELSE NextSend(conns, allowed_chats, pos + 1, chat_id)

\* ConnectionManager.disconnect
disconnect(conns, ws) ==
    IF ws \in 1..Len(conns)
    THEN [conns EXCEPT ![ws] = [present |-> FALSE, subscribed_chats |-> {}]]
    ELSE conns

forget_allowed(allowed_chats, ws) ==
    IF ws \in 1..Len(allowed_chats) THEN [allowed_chats EXCEPT ![ws] = NoneSet]
    ELSE allowed_chats

\* broadcast_to_chat: `for ws in disconnected: self.disconnect(ws)`
RECURSIVE disconnect_all(_, _)
disconnect_all(conns, failed) ==
    IF failed = <<>> THEN conns
    ELSE disconnect_all(disconnect(conns, Head(failed)), Tail(failed))

\* a clean-up that drops the scope of every connection
forget_all_Mutant(allowed_chats, failed) ==
    [ws \in 1..Len(allowed_chats) |-> NoneSet]

RECURSIVE forget_all(_, _)
forget_all(allowed_chats, failed) ==
    IF failed = <<>> THEN allowed_chats
    ELSE forget_all(forget_allowed(allowed_chats, Head(failed)), Tail(failed))

\* connections registered and eligible for chat_id right now
EligibleNow(conns, allowed_chats, chat_id) ==
    {ws \in 1..Len(conns) :
        conns[ws].present
        /\ Eligible(conns[ws].subscribed_chats, allowed_chats[ws], chat_id)}

\* =====================================================================
\* web/main.py: sessions, login rate limit, login
\* =====================================================================
VIEWER_USERNAME == "admin"
ClientIps == {"10.0.0.5", "10.0.0.6"}
LoginSlots == {1, 2}

\* the viewer accounts in storage: alice is active, bob is deactivated
StoredViewers ==
    [u \in {"alice", "bob"} |->
        [is_active |-> (u = "alice"), allowed_chat_ids |-> SomeSet({-1001})]]

\* a login request: its inputs, where the handler stands (pc), and what it
\* has done so far
NoLogin ==
    [pc |-> "idle", id |-> 0, ip |-> "", username |-> "", password_ok |-> FALSE,
     body_ok |-> FALSE, in_window |-> 0, recorded |-> FALSE, viewer_found |-> FALSE,
     viewer |-> StoredViewers["bob"], token |-> 0, evicted |-> {}, status |-> 0]

\* a response: its status (0 for none), the actions the operation gave
\* db.create_audit_log, and for a login the request as it ended
NoResponse == [status |-> 0, audits |-> <<>>, login |-> NoLogin]

\* module level of main.py, before any request
AuthIdle ==
    /\ _sessions = <<>>
    /\ _login_attempts = [ip \in {} |-> <<>>]
    /\ viewers = StoredViewers
    /\ logins = [slot \in LoginSlots |-> NoLogin]
    /\ login_count = 0
    /\ auth_resp = NoResponse

WithinLimit_Mutant(n) == n <= _LOGIN_RATE_LIMIT

\* _check_rate_limit: `len(attempts) < _LOGIN_RATE_LIMIT`
WithinLimit(n) == n < _LOGIN_RATE_LIMIT

\* _check_rate_limit: the attempts of ip it keeps
recent_attempts(attempts, ip, t) ==
    IF ip \in DOMAIN attempts
    THEN SelectSeq(attempts[ip], LAMBDA at : t - at < _LOGIN_RATE_WINDOW)
    ELSE <<>>

\* dict[key] = value
SetItem(dict, key, value) ==
    [k \in DOMAIN dict \cup {key} |-> IF k = key THEN value ELSE dict[k]]

\* _record_login_attempt
_record_login_attempt(attempts, ip, t) ==
    SetItem(attempts, ip, IF ip \in DOMAIN attempts THEN Append(attempts[ip], t)
                          ELSE <<t>>)

\* list.sort(key=created_at): stable, so the earliest entry with the least
\* created_at comes first
RECURSIVE sort_by_created_at(_)
sort_by_created_at(entries) ==
    IF entries = <<>> THEN <<>>
    ELSE LET least == CHOOSE i \in 1..Len(entries) :
                        \A j \in 1..Len(entries) :
                            \/ entries[i].created_at < entries[j].created_at
                            \/ entries[i].created_at = entries[j].created_at /\ i <= j
         IN <<entries[least]>> \o
            sort_by_created_at([k \in 1..(Len(entries) - 1) |->
                                   IF k < least THEN entries[k] ELSE entries[k + 1]])

EvictCount_Mutant(n) == n - _MAX_SESSIONS_PER_USER

\* _create_session: `len(user_sessions) - _MAX_SESSIONS_PER_USER + 1`
EvictCount(n) == n - _MAX_SESSIONS_PER_USER + 1

\* an eviction that drops the oldest sessions of the table, whoever holds them
evicted_tokens_Mutant(sessions, username) ==
    LET sorted == sort_by_created_at(sessions)
    IN IF Len(sessions) >= _MAX_SESSIONS_PER_USER
       THEN {sorted[k].token : k \in 1..EvictCount(Len(sessions))}
       ELSE {}

\* _create_session: the tokens it pops
evicted_tokens(sessions, username) ==
    LET user_sessions == SelectSeq(sessions, LAMBDA e : e.username = username)
        sorted == sort_by_created_at(user_sessions)
    IN IF Len(user_sessions) >= _MAX_SESSIONS_PER_USER
       THEN {sorted[k].token : k \in 1..EvictCount(Len(user_sessions))}
       ELSE {}

\* _create_session; token is what secrets.token_urlsafe returns, a value no
\* earlier session had
_create_session(sessions, username, role, allowed_chat_ids, t, token) ==
    Append(SelectSeq(sessions, LAMBDA e : e.token \notin evicted_tokens(sessions, username)),
           [token |-> token, username |-> username, role |-> role,
            allowed_chat_ids |-> allowed_chat_ids, created_at |-> t,
            last_accessed |-> t])

\* _sessions.get(token): the index of its entry, 0 for None
SessionIdx(sessions, token) ==
    IF \E k \in 1..Len(sessions) : sessions[k].token = token
    THEN CHOOSE k \in 1..Len(sessions) : sessions[k].token = token
    ELSE 0

\* a pop that takes every session of the token's user with it
PopSession_Mutant(sessions, token) ==
    SelectSeq(sessions, LAMBDA e :
                 \A k \in 1..Len(sessions) :
                    sessions[k].token = token => e.username # sessions[k].username)

\* _sessions.pop(token, None)
PopSession(sessions, token) == SelectSeq(sessions, LAMBDA e : e.token # token)

\* `time.time() - session.created_at > AUTH_SESSION_SECONDS`
Expired(t, created_at) == t - created_at > AUTH_SESSION_SECONDS

\* ---------------------------------------------------------------------
\* Initial state: TelegramListener.__init__ (protector constructed, not started)
\* ---------------------------------------------------------------------
ListenerConstructed(cfg) ==
    /\ config = cfg
    /\ _pending = <<>>
    /\ _blocked = [c \in {} |-> [blocked_until |-> 0, discarded |-> 0]]
    /\ protector_stats = [operations_applied |-> 0, operations_discarded |-> 0,
                          bursts_detected |-> 0, chats_protected |-> {}]
    /\ protector_running = FALSE
    /\ listener_running = FALSE
    /\ listener_stats = [edits_received |-> 0, edits_applied |-> 0,
                         deletions_received |-> 0, deletions_applied |-> 0,
                         deletions_skipped |-> 0, operations_discarded |-> 0,
                         errors |-> 0]
    /\ ready_ops = <<>>
    /\ db_log = <<>>
    /\ queued = <<>>
    /\ chat_stats = [c \in _tracked_chat_ids |-> [bursts |-> 0, discarded |-> 0]]

ListenerInit ==
    /\ now = 0
    /\ \E cfg \in Configs : ListenerConstructed(cfg)
    /\ ScopeIdle
    /\ WsIdle
    /\ AuthIdle

\* ---------------------------------------------------------------------
\* Actions of the listener
\* ---------------------------------------------------------------------
Tick ==
    /\ now < MaxTime
    /\ now' = now + 1
    /\ UNCHANGED listener_vars
    /\ UNCHANGED web_vars

\* TelegramListener.run up to run_until_disconnected: both loops are started
Run ==
    /\ ~listener_running
    /\ queued = <<>> /\ db_log = <<>> /\ listener_stats.deletions_skipped = 0
    /\ listener_running' = TRUE
    /\ protector_running' = TRUE
    /\ UNCHANGED <<now, config, _pending, _blocked, protector_stats, listener_stats,
                   ready_ops, db_log, queued, chat_stats>>
    /\ UNCHANGED web_vars

\* number of edits and deleted ids the handlers have been handed so far
EventsSeen ==
    listener_stats.edits_received + listener_stats.deletions_received
        + listener_stats.deletions_skipped

\* on_message_edited
OnMessageEdited(chat_id) ==
    /\ listener_running
    /\ EventsSeen < MaxOps
    /\ IF ~config.listen_edits \/ ~_should_process_chat(chat_id)
       THEN UNCHANGED <<_pending, _blocked, protector_stats, queued, chat_stats,
                        listener_stats>>
       ELSE LET S == queue_operation(Protector, chat_id, "edit", now)
            IN /\ StoreProtector(S)
               /\ listener_stats' =
                     [listener_stats EXCEPT
                        !.edits_received = @ + 1,
                        !.operations_discarded = IF S.ret THEN @ ELSE @ + 1]
    /\ UNCHANGED <<now, config, protector_running, listener_running, ready_ops, db_log>>
    /\ UNCHANGED web_vars

\* a handler that takes every MessageDeleted event for enabled
listen_deletions_Mutant(cfg) == TRUE

\* `self.config.listen_deletions`, the first test of on_message_deleted
listen_deletions(cfg) == cfg.listen_deletions

\* on_message_deleted: the loop over event.deleted_ids
RECURSIVE queue_deletions(_, _, _, _)
queue_deletions(S, chat_id, n, t) ==
    IF n = 0 THEN S
    ELSE LET S1 == queue_operation(S, chat_id, "deletion", t)
         IN queue_deletions(
               [S1 EXCEPT !.rejected = IF S1.ret THEN @ ELSE @ + 1], chat_id, n - 1, t)

OnMessageDeleted(chat_id, n) ==
    /\ listener_running
    /\ EventsSeen + n <= MaxOps
    /\ IF ~listen_deletions(config)
       THEN /\ listener_stats' = [listener_stats EXCEPT !.deletions_skipped = @ + n]
            /\ UNCHANGED <<_pending, _blocked, protector_stats, queued, chat_stats>>
       ELSE IF chat_id # NoChat /\ ~_should_process_chat(chat_id)
       THEN UNCHANGED <<_pending, _blocked, protector_stats, queued, chat_stats,
                        listener_stats>>
       ELSE IF chat_id = NoChat
       THEN /\ listener_stats' = [listener_stats EXCEPT !.deletions_received = @ + n]
            /\ UNCHANGED <<_pending, _blocked, protector_stats, queued, chat_stats>>
       ELSE LET S0 == [pending |-> _pending, blocked |-> _blocked,
                       stats |-> protector_stats, queued |-> queued,
                       chat_stats |-> chat_stats, ret |-> TRUE, rejected |-> 0]
                S == queue_deletions(S0, chat_id, n, now)
            IN /\ StoreProtector(S)
               /\ listener_stats' =
                     [listener_stats EXCEPT
                        !.deletions_received = @ + n,
                        !.operations_discarded = @ + S.rejected]
    /\ UNCHANGED <<now, config, protector_running, listener_running, ready_ops, db_log>>
    /\ UNCHANGED web_vars

\* MassOperationProtector._process_loop: one wake-up; the returned list is dropped
ProtectorProcessLoop ==
    /\ protector_running
    /\ LET S == _process_pending(Protector, now)
       IN StoreProtector(S)
    /\ UNCHANGED <<now, config, protector_running, listener_running, listener_stats,
                   ready_ops, db_log>>
    /\ UNCHANGED web_vars

\* _process_buffered_operations: one wake-up, ready_ops = get_ready_operations()
ListenerCollect ==
    /\ listener_running
    /\ ready_ops = <<>>
    /\ LET S == _process_pending(Protector, now)
       IN /\ StoreProtector(S)
          /\ ready_ops' = S.result
    /\ UNCHANGED <<now, config, protector_running, listener_running, listener_stats,
                   db_log>>
    /\ UNCHANGED web_vars

\* a loop body that swallows the exception without counting it
ApplyOp_Mutant(op, ok) ==
    /\ db_log' = Append(db_log, [id |-> op.id, chat_id |-> op.chat_id,
                                 operation_type |-> op.operation_type, ok |-> ok])
    /\ listener_stats' =
          IF ~ok THEN listener_stats
          ELSE IF op.operation_type = "edit"
          THEN [listener_stats EXCEPT !.edits_applied = @ + 1]
          ELSE [listener_stats EXCEPT !.deletions_applied = @ + 1]

\* _process_buffered_operations: the body of `for op in ready_ops`, one op;
\* ok = FALSE is the storage call raising
ApplyOp(op, ok) ==
    /\ db_log' = Append(db_log, [id |-> op.id, chat_id |-> op.chat_id,
                                 operation_type |-> op.operation_type, ok |-> ok])
    /\ listener_stats' =
          IF ~ok THEN [listener_stats EXCEPT !.errors = @ + 1]
          ELSE IF op.operation_type = "edit"
          THEN [listener_stats EXCEPT !.edits_applied = @ + 1]
          ELSE [listener_stats EXCEPT !.deletions_applied = @ + 1]

ListenerApply(ok) ==
    /\ listener_running
    /\ ready_ops # <<>>
    /\ ApplyOp(Head(ready_ops), ok)
    /\ ready_ops' = Tail(ready_ops)
    /\ UNCHANGED <<now, config, _pending, _blocked, protector_stats, protector_running,
                   listener_running, queued, chat_stats>>
    /\ UNCHANGED web_vars

\* TelegramListener.run, the finally block: the processor task is cancelled
\* (whatever it still held is dropped), then the protector is stopped
Shutdown ==
    /\ listener_running
    /\ listener_running' = FALSE
    /\ ready_ops' = <<>>
    /\ protector_running' = FALSE
    /\ UNCHANGED <<now, config, _pending, _blocked, protector_stats, listener_stats,
                   db_log, queued, chat_stats>>
    /\ UNCHANGED web_vars

ListenerNext ==
    \/ Tick
    \/ Run
    \/ \E c \in EventChats : OnMessageEdited(c)
    \/ \E c \in EventChats \cup {NoChat}, n \in DeletedCounts : OnMessageDeleted(c, n)
    \/ ProtectorProcessLoop
    \/ ListenerCollect
    \/ \E ok \in BOOLEAN : ListenerApply(ok)
    \/ Shutdown

SpecListener == ListenerInit /\ [][ListenerNext]_vars

\* ---------------------------------------------------------------------
\* SpecRelease: the listener under the default opt-in (edits on, deletions
\* off) with a threshold that lets operations through
\* ---------------------------------------------------------------------
ReleaseConfigs ==
    {cfg \in Configs :
        cfg.listen_edits /\ ~cfg.listen_deletions /\ cfg.threshold >= 2}

ReleaseInit ==
    /\ now = 0
    /\ \E cfg \in ReleaseConfigs : ListenerConstructed(cfg)
    /\ ScopeIdle
    /\ WsIdle
    /\ AuthIdle

SpecRelease == ReleaseInit /\ [][ListenerNext]_vars

\* ---------------------------------------------------------------------
\* SpecWindow: the listener observed over a whole protection window, with
\* the clock reading of every storage call kept next to db_log
\* (storage_calls[k] is the time at which db_log[k] was applied)
\* ---------------------------------------------------------------------
WindowHorizon == 2 * MaxTime

WindowConfigs ==
    {[threshold |-> th, window_seconds |-> WindowHorizon - 1, buffer_delay |-> 1,
      listen_edits |-> TRUE, listen_deletions |-> FALSE] : th \in {2, 3}}

WindowInit ==
    /\ now = 0
    /\ \E cfg \in WindowConfigs : ListenerConstructed(cfg)
    /\ ScopeIdle
    /\ WsIdle
    /\ AuthIdle

WindowTick ==
    /\ now < WindowHorizon
    /\ now' = now + 1
    /\ UNCHANGED listener_vars
    /\ UNCHANGED web_vars

\* _process_buffered_operations: the body of `for op in ready_ops`, one op
WindowApply(ok) ==
    /\ listener_running
    /\ ready_ops # <<>>
    /\ ApplyOp(Head(ready_ops), ok)
    /\ ready_ops' = Tail(ready_ops)
    /\ storage_calls' = Append(storage_calls, now)
    /\ UNCHANGED <<now, config, _pending, _blocked, protector_stats, protector_running,
                   listener_running, queued, chat_stats>>
    /\ UNCHANGED <<display_chat_ids, stats_task, caller, resp, walk>>
    /\ UNCHANGED <<ws_vars, auth_vars>>

WindowNext ==
    \/ WindowTick
    \/ Run
    \/ \E c \in EventChats : OnMessageEdited(c)
    \/ \E c \in EventChats \cup {NoChat}, n \in DeletedCounts : OnMessageDeleted(c, n)
    \/ ProtectorProcessLoop
    \/ ListenerCollect
    \/ \E ok \in BOOLEAN : WindowApply(ok)
    \/ Shutdown

SpecWindow == WindowInit /\ [][WindowNext]_vars

\* ---------------------------------------------------------------------
\* SpecScenario: the listener under the configuration of the burst-discard
\* scenario, receiving up to six edits of one chat
\* ---------------------------------------------------------------------
S1 == [threshold |-> 5, window_s |-> 10, buffer_delay_s |-> 2,
       events |-> 6, chat_id |-> -1001]

ScenarioInit ==
    /\ now = 0
    /\ ListenerConstructed([threshold |-> S1.threshold,
                            window_seconds |-> S1.window_s,
                            buffer_delay |-> S1.buffer_delay_s,
                            listen_edits |-> TRUE, listen_deletions |-> FALSE])
    /\ ScopeIdle
    /\ WsIdle
    /\ AuthIdle

\* on_message_edited for the scenario's chat
ScenarioEdit ==
    /\ listener_running
    /\ listener_stats.edits_received < S1.events
    /\ LET S == queue_operation(Protector, S1.chat_id, "edit", now)
       IN /\ StoreProtector(S)
          /\ listener_stats' =
                [listener_stats EXCEPT
                   !.edits_received = @ + 1,
                   !.operations_discarded = IF S.ret THEN @ ELSE @ + 1]
    /\ UNCHANGED <<now, config, protector_running, listener_running, ready_ops, db_log>>
    /\ UNCHANGED web_vars

ScenarioNext ==
    \/ Tick
    \/ Run
    \/ ScenarioEdit
    \/ ProtectorProcessLoop
    \/ ListenerCollect
    \/ \E ok \in BOOLEAN : ListenerApply(ok)
    \/ Shutdown

SpecScenario == ScenarioInit /\ [][ScenarioNext]_vars

\* =====================================================================
\* SpecScope: the read endpoints of web/main.py, one action per request
\* =====================================================================
\* the listener is constructed and not started while the viewer is examined
IdleConfig ==
    [threshold |-> 2, window_seconds |-> 2, buffer_delay |-> 1,
     listen_edits |-> FALSE, listen_deletions |-> FALSE]

ScopeInit ==
    /\ now = 0
    /\ ListenerConstructed(IdleConfig)
    /\ display_chat_ids \in OptionalScopes
    /\ stats_task = NoTask
    /\ caller \in Users
    /\ resp = NoRequest
    /\ storage_calls = <<>>
    /\ walk = NoWalk
    /\ WsIdle
    /\ AuthIdle

Request(endpoint, user, chat_id) ==
    [NoRequest EXCEPT !.endpoint = endpoint, !.user = user, !.chat_id = chat_id]

\* GET /api/chats
get_chats(user, limit, offset, archived) ==
    LET user_chat_ids == get_user_chat_ids(user, display_chat_ids)
        listing ==
            IF ~user_chat_ids.is_none
            THEN RestrictedListing(db_get_all_chats(archived), user_chat_ids, limit, offset)
            ELSE [chats |-> db_get_chats_page(archived, limit, offset),
                  total |-> db_get_chat_count(archived)]
    IN [Request("chats", user, 0) EXCEPT
            !.limit = limit, !.offset = offset, !.archived = archived,
            !.status = 200, !.chats = IdList(listing.chats), !.total = listing.total,
            !.has_more = HasMore(offset, Len(listing.chats), listing.total)]

get_chats_calls(user) ==
    IF ~get_user_chat_ids(user, display_chat_ids).is_none
    THEN <<"get_all_chats">>
    ELSE <<"get_all_chats", "get_chat_count">>

GetChats(user, limit, offset, archived) ==
    /\ resp' = get_chats(user, limit, offset, archived)
    /\ storage_calls' = get_chats_calls(user)
    /\ walk' = IF offset = 0 THEN [active |-> TRUE, chats |-> resp'.chats] ELSE NoWalk
    /\ UNCHANGED <<now, listener_vars, display_chat_ids, stats_task, caller, ws_vars, auth_vars>>

\* the client asks for the page after the one it holds
GetChatsNextPage ==
    /\ resp.endpoint = "chats"
    /\ walk.active
    /\ resp.has_more
    /\ resp' = get_chats(resp.user, resp.limit, resp.offset + resp.limit, resp.archived)
    /\ storage_calls' = get_chats_calls(resp.user)
    /\ walk' = [walk EXCEPT !.chats = @ \o resp'.chats]
    /\ UNCHANGED <<now, listener_vars, display_chat_ids, stats_task, caller, ws_vars, auth_vars>>

\* the access check every single-chat endpoint starts with, then its body:
\* `calls` are the storage methods the body invokes, `status` what it returns
SingleChat(endpoint, user, chat_id, status, calls) ==
    LET user_chat_ids == get_user_chat_ids(user, display_chat_ids)
    IN /\ IF ScopeDenies(user_chat_ids, chat_id)
          THEN /\ resp' = [Request(endpoint, user, chat_id) EXCEPT !.status = 403]
               /\ storage_calls' = <<>>
          ELSE /\ resp' = [Request(endpoint, user, chat_id) EXCEPT !.status = status]
               /\ storage_calls' = calls
       /\ walk' = NoWalk
       /\ UNCHANGED <<now, listener_vars, display_chat_ids, stats_task, caller, ws_vars, auth_vars>>

\* GET /api/chats/{chat_id}/messages; date_ok = before_date absent or ISO 8601
GetMessages(user, chat_id, date_ok) ==
    IF date_ok
    THEN SingleChat("messages", user, chat_id, 200, <<"get_messages_paginated">>)
    ELSE SingleChat("messages", user, chat_id, 400, <<>>)

\* GET /api/chats/{chat_id}/pinned
GetPinnedMessages(user, chat_id) ==
    SingleChat("pinned", user, chat_id, 200, <<"get_pinned_messages">>)

\* GET /api/chats/{chat_id}/topics
GetChatTopics(user, chat_id) ==
    SingleChat("topics", user, chat_id, 200, <<"get_forum_topics">>)

\* GET /api/chats/{chat_id}/stats
GetChatStats(user, chat_id) ==
    SingleChat("stats", user, chat_id, 200, <<"get_chat_stats">>)

\* GET /api/chats/{chat_id}/messages/by-date; found = storage has a message
GetMessageByDate(user, chat_id, date_ok, found) ==
    IF ~date_ok
    THEN SingleChat("by-date", user, chat_id, 400, <<>>)
    ELSE SingleChat("by-date", user, chat_id, IF found THEN 200 ELSE 404,
                    <<"find_message_by_date_with_joins">>)

\* GET /api/chats/{chat_id}/export
ExportChat(user, chat_id) ==
    IF db_get_chat_by_id(chat_id)
    THEN SingleChat("export", user, chat_id, 200,
                    <<"get_chat_by_id", "get_messages_for_export">>)
    ELSE SingleChat("export", user, chat_id, 404, <<"get_chat_by_id">>)

\* GET /api/archived/count; resp.chats lists the chats the count counted
GetArchivedCount(user) ==
    LET user_chat_ids == get_user_chat_ids(user, display_chat_ids)
        all_archived == db_get_all_chats("true")
        counted == IF ~user_chat_ids.is_none
                   THEN SelectSeq(all_archived, LAMBDA chat : chat.id \in user_chat_ids.ids)
                   ELSE all_archived
    IN /\ resp' = [Request("archived-count", user, 0) EXCEPT
                       !.status = 200, !.chats = IdList(counted),
                       !.total = IF ~user_chat_ids.is_none THEN Len(counted)
                                 ELSE db_get_archived_chat_count]
       /\ storage_calls' = IF ~user_chat_ids.is_none THEN <<"get_all_chats">>
                           ELSE <<"get_archived_chat_count">>
       /\ walk' = NoWalk
       /\ UNCHANGED <<now, listener_vars, display_chat_ids, stats_task, caller, ws_vars, auth_vars>>

\* GET /api/admin/chats (require_master, then every stored chat)
AdminListChats(user) ==
    /\ IF user.role # "master"
       THEN /\ resp' = [Request("admin-chats", user, 0) EXCEPT !.status = 403]
            /\ storage_calls' = <<>>
       ELSE /\ resp' = [Request("admin-chats", user, 0) EXCEPT
                            !.status = 200, !.chats = IdList(db_get_all_chats("None")),
                            !.total = 0]
            /\ storage_calls' = <<"get_all_chats">>
    /\ walk' = NoWalk
    /\ UNCHANGED <<now, listener_vars, display_chat_ids, stats_task, caller, ws_vars, auth_vars>>

Limits == 1..MaxLimit
Offsets == 0..MaxOffset

ScopeNext ==
    \/ \E l \in Limits, o \in Offsets, a \in ArchivedFilters : GetChats(caller, l, o, a)
    \/ GetChatsNextPage
    \/ \E c \in RequestChatIds, d \in BOOLEAN : GetMessages(caller, c, d)
    \/ \E c \in RequestChatIds : GetPinnedMessages(caller, c)
    \/ \E c \in RequestChatIds : GetChatTopics(caller, c)
    \/ \E c \in RequestChatIds : GetChatStats(caller, c)
    \/ \E c \in RequestChatIds, d \in BOOLEAN, f \in BOOLEAN :
          GetMessageByDate(caller, c, d, f)
    \/ \E c \in RequestChatIds : ExportChat(caller, c)
    \/ GetArchivedCount(caller)
    \/ AdminListChats(caller)

SpecScope == ScopeInit /\ [][ScopeNext]_vars

\* =====================================================================
\* SpecWs: WebSocket connections and broadcasts
\* =====================================================================
WsUsers ==
    {[username |-> "admin", role |-> "master", allowed_chat_ids |-> NoneSet],
     [username |-> "alice", role |-> "viewer", allowed_chat_ids |-> SomeSet({-1001})]}

WsDisplays == {NoneSet, SomeSet({-1002})}

WsInit ==
    /\ now = 0
    /\ ListenerConstructed(IdleConfig)
    /\ display_chat_ids \in WsDisplays
    /\ stats_task = NoTask
    /\ caller = NoRequest.user
    /\ resp = NoRequest
    /\ storage_calls = <<>>
    /\ walk = NoWalk
    /\ WsIdle
    /\ AuthIdle

NotWs == <<now, listener_vars, scope_vars, auth_vars>>

\* the record of the broadcast after the registry changed to conns /
\* allowed_chats: while it is in progress, stable keeps the connections that
\* have been registered and eligible since it started; the record of a
\* finished broadcast is dropped
Observed(conns, allowed_chats) ==
    IF bcast.status = "sending"
    THEN [bcast EXCEPT
            !.stable = @ \cap EligibleNow(conns, allowed_chats, bcast.chat_id)]
    ELSE NoBroadcast

\* websocket_endpoint after the cookie check: ws_manager.connect with the
\* scope resolved for the session's user
WsConnect(user) ==
    LET ws == Len(active_connections) + 1
    IN /\ ws \in WebSockets
       /\ active_connections' =
             Append(active_connections, [present |-> TRUE, subscribed_chats |-> {}])
       /\ _allowed_chats' =
             Append(_allowed_chats, get_user_chat_ids(user, display_chat_ids))
       /\ bcast' = Observed(active_connections', _allowed_chats')
       /\ UNCHANGED NotWs

\* websocket_endpoint: receive_json raises WebSocketDisconnect
WsDisconnect(ws) ==
    /\ IsConnected(active_connections, ws)
    /\ active_connections' = disconnect(active_connections, ws)
    /\ _allowed_chats' = forget_allowed(_allowed_chats, ws)
    /\ bcast' = Observed(active_connections', _allowed_chats')
    /\ UNCHANGED NotWs

\* websocket_endpoint: {"action": "subscribe"}, ConnectionManager.subscribe
WsSubscribe(ws, chat_id) ==
    /\ IsConnected(active_connections, ws)
    /\ active_connections' =
          IF ScopeDenies(_allowed_chats[ws], chat_id) THEN active_connections
          ELSE [active_connections EXCEPT ![ws].subscribed_chats = @ \cup {chat_id}]
    /\ bcast' = Observed(active_connections', _allowed_chats)
    /\ UNCHANGED <<_allowed_chats, NotWs>>

\* websocket_endpoint: {"action": "unsubscribe"}, ConnectionManager.unsubscribe
WsUnsubscribe(ws, chat_id) ==
    /\ IsConnected(active_connections, ws)
    /\ active_connections' =
          [active_connections EXCEPT ![ws].subscribed_chats = @ \ {chat_id}]
    /\ bcast' = Observed(active_connections', _allowed_chats)
    /\ UNCHANGED <<_allowed_chats, NotWs>>

\* what a send is recorded as: the connection, and whether what the
\* registry held for it when send_json was called admits chat_id
SendRecord(ws, chat_id) ==
    [ws |-> ws,
     in_scope |-> _allowed_chats[ws].is_none \/ chat_id \in _allowed_chats[ws].ids,
     subscribed |-> \/ active_connections[ws].subscribed_chats = {}
                    \/ chat_id \in active_connections[ws].subscribed_chats]

\* broadcast_to_chat from the iterator's next() at position b.pos up to the
\* next `await websocket.send_json`, or through the clean-up to the return
BroadcastResume(b) ==
    LET next_ws == NextSend(active_connections, _allowed_chats, b.pos, b.chat_id)
    IN IF NumConnected(active_connections) # b.size
       THEN \* RuntimeError: dictionary changed size during iteration
            /\ bcast' = [b EXCEPT !.status = "aborted"]
            /\ UNCHANGED <<active_connections, _allowed_chats>>
       ELSE IF next_ws # 0
       THEN /\ bcast' = [b EXCEPT !.status = "sending", !.pos = next_ws,
                                   !.sent = Append(@, SendRecord(next_ws, b.chat_id))]
            /\ UNCHANGED <<active_connections, _allowed_chats>>
       ELSE /\ bcast' = [b EXCEPT !.status = "done", !.pos = Len(active_connections)]
            /\ active_connections' = disconnect_all(active_connections, b.disconnected)
            /\ _allowed_chats' = forget_all(_allowed_chats, b.disconnected)

\* handle_realtime_notification for an event of chat_id: the display filter,
\* then broadcast_to_chat up to its first send
HandleRealtimeNotification(chat_id) ==
    /\ bcast.status # "sending"
    /\ IF master_filter(display_chat_ids) # NoneSet
          /\ chat_id \notin display_chat_ids.ids
       THEN UNCHANGED ws_vars
       ELSE BroadcastResume(
               [NoBroadcast EXCEPT
                   !.chat_id = chat_id,
                   !.size = NumConnected(active_connections),
                   !.stable = EligibleNow(active_connections, _allowed_chats, chat_id)])
    /\ UNCHANGED NotWs

\* `await websocket.send_json(message)` returns (ok) or raises, and the
\* loop goes on
SendReturns(ok) ==
    /\ bcast.status = "sending"
    /\ BroadcastResume(
          IF ok THEN bcast
          ELSE [bcast EXCEPT !.disconnected = Append(@, bcast.pos)])
    /\ UNCHANGED NotWs

WsNext ==
    \/ \E u \in WsUsers : WsConnect(u)
    \/ \E ws \in WebSockets : WsDisconnect(ws)
    \/ \E ws \in WebSockets, c \in WsChats : WsSubscribe(ws, c)
    \/ \E ws \in WebSockets, c \in WsChats : WsUnsubscribe(ws, c)
    \/ \E c \in WsChats : HandleRealtimeNotification(c)
    \/ \E ok \in BOOLEAN : SendReturns(ok)

SpecWs == WsInit /\ [][WsNext]_vars

\* =====================================================================
\* Login, logout, session validation, clean-up task
\* =====================================================================
AuthInit ==
    /\ now = 0
    /\ ListenerConstructed(IdleConfig)
    /\ ScopeIdle
    /\ WsIdle
    /\ AuthIdle

NotAuth == <<listener_vars, scope_vars>>

\* time passes up to one of the instants at which the clock is looked at
AuthTick(points) ==
    /\ \E t \in points : t > now /\ now' = t
    /\ auth_resp' = NoResponse
    /\ UNCHANGED <<_sessions, _login_attempts, viewers, logins, login_count,
                   ws_vars, NotAuth>>

\* the response of a login request that has reached its end
LoginResponse(req, status, audits) ==
    [status |-> status, audits |-> audits,
     login |-> [req EXCEPT !.pc = "done", !.status = status]]

\* POST /api/login up to `await request.json()`: _check_rate_limit
LoginStart(slot, ip, username, password_ok, body_ok) ==
    LET attempts == recent_attempts(_login_attempts, ip, now)
        req == [NoLogin EXCEPT !.pc = "json", !.id = login_count + 1, !.ip = ip,
                               !.username = username, !.password_ok = password_ok,
                               !.body_ok = body_ok, !.in_window = Len(attempts)]
    IN /\ logins[slot].pc = "idle"
       /\ slot = 1 \/ logins[1].pc # "idle"
       /\ login_count < MaxLogins
       /\ login_count' = login_count + 1
       /\ _login_attempts' = SetItem(_login_attempts, ip, attempts)
       /\ IF WithinLimit(Len(attempts))
          THEN /\ logins' = [logins EXCEPT ![slot] = req]
               /\ auth_resp' = NoResponse
          ELSE /\ auth_resp' = LoginResponse(req, 429, <<>>)
               /\ UNCHANGED logins
       /\ UNCHANGED <<now, _sessions, viewers, ws_vars, NotAuth>>

\* login from the return of request.json() to `await db.get_viewer_by_username`
LoginJson(slot) ==
    LET req == logins[slot]
    IN /\ req.pc = "json"
       /\ IF ~req.body_ok
          THEN /\ auth_resp' = LoginResponse(req, 400, <<>>)
               /\ logins' = [logins EXCEPT ![slot] = NoLogin]
               /\ UNCHANGED _login_attempts
          ELSE /\ _login_attempts' = _record_login_attempt(_login_attempts, req.ip, now)
               /\ logins' = [logins EXCEPT ![slot] = [req EXCEPT !.pc = "lookup",
                                                                 !.recorded = TRUE]]
               /\ auth_resp' = NoResponse
       /\ UNCHANGED <<now, _sessions, viewers, login_count, ws_vars, NotAuth>>

\* storage answers get_viewer_by_username with the row it holds now
LoginLookup(slot) ==
    LET req == logins[slot]
    IN /\ req.pc = "lookup"
       /\ logins' =
             [logins EXCEPT ![slot] =
                 IF req.username \in DOMAIN viewers
                 THEN [req EXCEPT !.pc = "verify", !.viewer_found = TRUE,
                                  !.viewer = viewers[req.username]]
                 ELSE [req EXCEPT !.pc = "verify"]]
       /\ auth_resp' = NoResponse
       /\ UNCHANGED <<now, _sessions, _login_attempts, viewers, login_count,
                      ws_vars, NotAuth>>

\* a viewer check that does not read is_active
ViewerVerified_Mutant(req) == req.viewer_found /\ req.password_ok

\* `if viewer and viewer["is_active"]:` and then `if _verify_password(...)`
ViewerVerified(req) ==
    req.viewer_found /\ req.viewer.is_active /\ req.password_ok

\* login from the viewer row to `await db.create_audit_log`: the viewer
\* check, then the master check, then failure
LoginVerify(slot) ==
    LET req == logins[slot]
        as_viewer == ViewerVerified(req)
        as_master == req.username = VIEWER_USERNAME /\ req.password_ok
        role == IF as_viewer THEN "viewer" ELSE "master"
        allowed == IF as_viewer THEN req.viewer.allowed_chat_ids ELSE NoneSet
    IN /\ req.pc = "verify"
       /\ IF as_viewer \/ as_master
          THEN /\ _sessions' = _create_session(_sessions, req.username, role, allowed,
                                               now, req.id)
               /\ logins' = [logins EXCEPT ![slot] =
                                [req EXCEPT !.pc = "audit", !.token = req.id,
                                            !.evicted = evicted_tokens(_sessions,
                                                                       req.username),
                                            !.status = 200]]
          ELSE /\ logins' = [logins EXCEPT ![slot] =
                                [req EXCEPT !.pc = "audit", !.status = 401]]
               /\ UNCHANGED _sessions
       /\ auth_resp' = NoResponse
       /\ UNCHANGED <<now, _login_attempts, viewers, login_count, ws_vars,
                      NotAuth>>

\* db.create_audit_log writes its row, the response goes out
LoginAudit(slot) ==
    LET req == logins[slot]
        action == IF req.status = 200 THEN "login_success" ELSE "login_failed"
    IN /\ req.pc = "audit"
       /\ auth_resp' = LoginResponse(req, req.status, <<action>>)
       /\ logins' = [logins EXCEPT ![slot] = NoLogin]
       /\ UNCHANGED <<now, _sessions, _login_attempts, viewers, login_count, ws_vars,
                      NotAuth>>

\* the response of an operation on a session token
TokenResponse(status) == [NoResponse EXCEPT !.status = status]

\* require_auth, the dependency of every protected endpoint
RequireAuth(token) ==
    LET k == SessionIdx(_sessions, token)
    IN /\ IF k = 0
          THEN /\ auth_resp' = TokenResponse(401)
               /\ UNCHANGED _sessions
          ELSE IF Expired(now, _sessions[k].created_at)
          THEN /\ auth_resp' = TokenResponse(401)
               /\ _sessions' = PopSession(_sessions, token)
          ELSE /\ auth_resp' = TokenResponse(200)
               /\ _sessions' = [_sessions EXCEPT ![k].last_accessed = now]
       /\ UNCHANGED <<now, _login_attempts, viewers, logins, login_count,
                      ws_vars, NotAuth>>

\* GET /api/auth/check: 200 stands for authenticated, 401 for not
CheckAuth(token) ==
    LET k == SessionIdx(_sessions, token)
    IN /\ auth_resp' =
             TokenResponse(IF k = 0 \/ Expired(now, _sessions[k].created_at)
                           THEN 401 ELSE 200)
       /\ UNCHANGED <<now, _sessions, _login_attempts, viewers, logins,
                      login_count, ws_vars, NotAuth>>

\* websocket_endpoint up to the end of ws_manager.connect: 4001 is the
\* close code, 101 the accepted upgrade
WebsocketEndpoint(token) ==
    LET k == SessionIdx(_sessions, token)
        user_ctx == [username |-> _sessions[k].username, role |-> _sessions[k].role,
                     allowed_chat_ids |-> _sessions[k].allowed_chat_ids]
    IN /\ active_connections = <<>>
       /\ IF k = 0 \/ Expired(now, _sessions[k].created_at)
          THEN /\ auth_resp' = TokenResponse(4001)
               /\ UNCHANGED ws_vars
          ELSE /\ auth_resp' = TokenResponse(101)
               /\ active_connections' = <<[present |-> TRUE, subscribed_chats |-> {}]>>
               /\ _allowed_chats' = <<get_user_chat_ids(user_ctx, display_chat_ids)>>
               /\ UNCHANGED bcast
       /\ UNCHANGED <<now, _sessions, _login_attempts, viewers, logins,
                      login_count, NotAuth>>

\* POST /api/logout
Logout(token) ==
    /\ IF SessionIdx(_sessions, token) # 0
       THEN /\ _sessions' = PopSession(_sessions, token)
            /\ auth_resp' = [TokenResponse(200) EXCEPT !.audits = <<"logout">>]
       ELSE /\ auth_resp' = TokenResponse(200)
            /\ UNCHANGED _sessions
    /\ UNCHANGED <<now, _login_attempts, viewers, logins, login_count, ws_vars, NotAuth>>

\* session_cleanup_task: one pass after the sleep
SessionCleanup ==
    /\ _sessions' = SelectSeq(_sessions, LAMBDA e :
                                 ~(now - e.created_at > AUTH_SESSION_SECONDS))
    /\ _login_attempts' =
          [ip \in {i \in DOMAIN _login_attempts :
                      ~(\A k \in 1..Len(_login_attempts[i]) :
                            now - _login_attempts[i][k] > _LOGIN_RATE_WINDOW)}
              |-> _login_attempts[ip]]
    /\ auth_resp' = NoResponse
    /\ UNCHANGED <<now, viewers, logins, login_count, ws_vars, NotAuth>>

\* the cookies a request can carry: the token a login has issued, or one no
\* session has
Tokens == 1..MaxLogins

\* one login request at a time
OneAtATime == {1}

\* ---------------------------------------------------------------------
\* SpecAuth: the life of a session, from a successful login to its end
\* ---------------------------------------------------------------------
\* the instants the clock is looked at: a start, the session lifetime after it,
\* one second more
SessionTimes == {0, AUTH_SESSION_SECONDS, AUTH_SESSION_SECONDS + 1}

\* bodies that log in: the master, and the viewer alice
SessionLogins == {"admin", "alice"}

AuthNext ==
    \/ AuthTick(SessionTimes)
    \/ \E slot \in OneAtATime, username \in SessionLogins :
          LoginStart(slot, "10.0.0.5", username, TRUE, TRUE)
    \/ \E slot \in OneAtATime : LoginJson(slot)
    \/ \E slot \in OneAtATime : LoginLookup(slot)
    \/ \E slot \in OneAtATime : LoginVerify(slot)
    \/ \E slot \in OneAtATime : LoginAudit(slot)
    \/ \E token \in Tokens : RequireAuth(token)
    \/ \E token \in Tokens : CheckAuth(token)
    \/ \E token \in Tokens : WebsocketEndpoint(token)
    \/ \E token \in Tokens : Logout(token)
    \/ SessionCleanup

SpecAuth == AuthInit /\ [][AuthNext]_vars

\* ---------------------------------------------------------------------
\* SpecLogout: sessions opened, validated and closed by their holders, with
\* one jump of the clock past the session lifetime and the clean-up task
\* ---------------------------------------------------------------------
LogoutNext ==
    \/ AuthTick({AUTH_SESSION_SECONDS + 1})
    \/ \E slot \in OneAtATime, username \in SessionLogins :
          LoginStart(slot, "10.0.0.5", username, TRUE, TRUE)
    \/ \E slot \in OneAtATime : LoginJson(slot)
    \/ \E slot \in OneAtATime : LoginLookup(slot)
    \/ \E slot \in OneAtATime : LoginVerify(slot)
    \/ \E slot \in OneAtATime : LoginAudit(slot)
    \/ \E token \in Tokens : RequireAuth(token)
    \/ \E token \in Tokens : CheckAuth(token)
    \/ \E token \in Tokens : WebsocketEndpoint(token)
    \/ \E token \in Tokens : Logout(token)
    \/ SessionCleanup

SpecLogout == AuthInit /\ [][LogoutNext]_vars

\* ---------------------------------------------------------------------
\* SpecFrame: sessions being created and validated, up to the last instant
\* of their lifetime
\* ---------------------------------------------------------------------
FrameNext ==
    \/ AuthTick({AUTH_SESSION_SECONDS})
    \/ \E slot \in OneAtATime, username \in SessionLogins :
          LoginStart(slot, "10.0.0.5", username, TRUE, TRUE)
    \/ \E slot \in OneAtATime : LoginJson(slot)
    \/ \E slot \in OneAtATime : LoginLookup(slot)
    \/ \E slot \in OneAtATime : LoginVerify(slot)
    \/ \E slot \in OneAtATime : LoginAudit(slot)
    \/ \E token \in Tokens : RequireAuth(token)

SpecFrame == AuthInit /\ [][FrameNext]_vars

\* ---------------------------------------------------------------------
\* SpecLogin: login requests of every kind against the rate limit
\* ---------------------------------------------------------------------
\* the instants the clock is looked at: a start, the last second of the rate
\* window that starts there, the first second after it, one second more
LoginTimes ==
    {0, _LOGIN_RATE_WINDOW - 1, _LOGIN_RATE_WINDOW, _LOGIN_RATE_WINDOW + 1}

\* the bodies a login request can carry: username, whether the password is
\* the one of that account, whether the body is well-formed
LoginBodies ==
    {[username |-> "admin", password_ok |-> FALSE, body_ok |-> TRUE],
     [username |-> "alice", password_ok |-> TRUE, body_ok |-> TRUE],
     [username |-> "alice", password_ok |-> FALSE, body_ok |-> TRUE],
     [username |-> "bob", password_ok |-> TRUE, body_ok |-> TRUE],
     [username |-> "", password_ok |-> FALSE, body_ok |-> FALSE]}

LoginNext ==
    \/ AuthTick(LoginTimes)
    \/ \E slot \in OneAtATime, ip \in ClientIps, body \in LoginBodies :
          LoginStart(slot, ip, body.username, body.password_ok, body.body_ok)
    \/ \E slot \in OneAtATime : LoginJson(slot)
    \/ \E slot \in OneAtATime : LoginLookup(slot)
    \/ \E slot \in OneAtATime : LoginVerify(slot)
    \/ \E slot \in OneAtATime : LoginAudit(slot)
    \/ SessionCleanup

SpecLogin == AuthInit /\ [][LoginNext]_vars

\* ---------------------------------------------------------------------
\* SpecRace: login requests of one address in flight together, each resumed
\* at its awaits in any order
\* ---------------------------------------------------------------------
RaceNext ==
    \/ \E slot \in LoginSlots : LoginStart(slot, "10.0.0.5", "admin", FALSE, TRUE)
    \/ \E slot \in LoginSlots : LoginJson(slot)
    \/ \E slot \in LoginSlots : LoginLookup(slot)
    \/ \E slot \in LoginSlots : LoginVerify(slot)
    \/ \E slot \in LoginSlots : LoginAudit(slot)

SpecRace == AuthInit /\ [][RaceNext]_vars

\* =====================================================================
\* SpecMedia: GET /media/{path}
\* =====================================================================
\* the disk: the media root, the files (each named here by its canonical
\* path, which also stands for its content), and one symbolic link inside
\* the root that leads out of it
\* thumbnails._thumb_path, the file name given by its stem
_thumb_path(media_root, size, folder, stem) ==
    media_root \o <<".thumbs", size, folder, stem \o ".webp">>

MediaDisk ==
    [root |-> <<"media">>,
     files |-> {<<"media", "-1001", "a.jpg">>, <<"media", "-1002", "a.jpg">>,
                <<"media", "avatars", "a.jpg">>, <<"a.jpg">>,
                _thumb_path(<<"media">>, "200", "-1001", "a"),
                _thumb_path(<<"media">>, "200", "-1002", "a")},
     link |-> <<"media", "avatars", "out">>,
     link_target |-> <<>>]

\* what a path segment can be
Segments == {"..", "-1001", "-1002", "avatars", "a.jpg", "out",
             ".thumbs", "200", "a.webp"}

\* int(parts[0]): the value, or ValueError
int == [s \in {"-1001", "-1002"} |-> IF s = "-1001" THEN -1001 ELSE -1002]

\* Path.resolve() of base / parts: `..` leaves the directory reached so far,
\* a symbolic link is replaced by its target
RECURSIVE resolve(_, _)
resolve(base, parts) ==
    IF parts = <<>> THEN base
    ELSE LET seg == Head(parts)
             step == IF seg = ".."
                     THEN IF base = <<>> THEN <<>> ELSE SubSeq(base, 1, Len(base) - 1)
                     ELSE Append(base, seg)
         IN resolve(IF step = MediaDisk.link THEN MediaDisk.link_target ELSE step,
                    Tail(parts))

\* Path.is_relative_to
is_relative_to(path, root) ==
    Len(path) >= Len(root) /\ SubSeq(path, 1, Len(root)) = root

ScopeTested_Mutant(parts) == Len(parts) >= 3 /\ parts[1] # "avatars"

\* serve_media: `len(parts) >= 2 and parts[0] != "avatars"`
ScopeTested(parts) == Len(parts) >= 2 /\ parts[1] # "avatars"

\* serve_media: status, and the file sent
serve_media(user, parts, has_root, display) ==
    LET resolved == resolve(MediaDisk.root, parts)
        user_chat_ids == get_user_chat_ids(user, display)
        status ==
            IF ~has_root THEN 404
            ELSE IF ~is_relative_to(resolved, MediaDisk.root) THEN 403
            ELSE IF /\ ~user_chat_ids.is_none
                    /\ ScopeTested(parts)
                    /\ parts[1] \in DOMAIN int
                    /\ int[parts[1]] \notin user_chat_ids.ids THEN 403
            ELSE IF resolved \notin MediaDisk.files THEN 404
            ELSE 200
    IN [status |-> status, content |-> IF status = 200 THEN resolved ELSE <<>>]

\* a /media request of an authenticated caller is pending; has_root tells
\* whether config.media_path existed when the module was loaded
MediaInit ==
    /\ now = 0
    /\ ListenerConstructed(IdleConfig)
    /\ display_chat_ids \in WsDisplays
    /\ stats_task = NoTask
    /\ caller \in WsUsers
    /\ \E n \in 1..MaxSegments : \E parts \in [1..n -> Segments], has_root \in BOOLEAN :
          resp = [endpoint |-> "media", user |-> caller, parts |-> parts,
                  has_root |-> has_root, status |-> 0, content |-> <<>>]
    /\ storage_calls = <<>>
    /\ walk = NoWalk
    /\ WsIdle
    /\ AuthIdle

ServeMedia ==
    LET answer == serve_media(resp.user, resp.parts, resp.has_root, display_chat_ids)
    IN /\ resp.status = 0
       /\ resp' = [resp EXCEPT !.status = answer.status, !.content = answer.content]
       /\ UNCHANGED <<now, listener_vars, display_chat_ids, stats_task, caller, storage_calls, walk,
                      ws_vars, auth_vars>>

SpecMedia == MediaInit /\ [][ServeMedia]_vars

\* =====================================================================
\* SpecPush: POST /internal/push
\* =====================================================================
\* request.client.host: "None" for a request without a client, a host name,
\* or the dotted text of an IPv4 address, kept as its four numbers (the text
\* of a number has no leading zero, so the text starts with "10." exactly
\* when the first number is 10)
PushHosts ==
    {[name |-> n, octets |-> <<>>] : n \in {"None", "localhost", "::1"}}
    \cup {[name |-> "", octets |-> <<a, b, c, d>>] :
             a \in {8, 10, 100, 127, 172, 192}, b \in {0, 15, 16, 31, 32, 168},
             c \in {0, 1}, d \in {0, 1}}

\* client_host.startswith(("172.", "10.", "192.168."))
startswith_private(octets) ==
    /\ octets # <<>>
    /\ \/ octets[1] = 172
       \/ octets[1] = 10
       \/ octets[1] = 192 /\ octets[2] = 168

\* internal_push: the status of the response and whether
\* realtime_listener.handle_http_push was given the payload; body_ok = FALSE
\* is request.json() raising, which the handler answers with status "error"
\* under HTTP 200
internal_push(host, has_listener, body_ok) ==
    LET allowed ==
            /\ host.name # "None"
            /\ \/ host.name \in {"localhost", "::1"}
               \/ host.octets = <<127, 0, 0, 1>>
               \/ startswith_private(host.octets)
    IN IF ~allowed
       THEN [status |-> 403, handed |-> FALSE]
       ELSE [status |-> 200, handed |-> body_ok /\ has_listener]

\* a request to /internal/push is pending; has_listener tells whether
\* realtime_listener was set at start-up
PushInit ==
    /\ now = 0
    /\ ListenerConstructed(IdleConfig)
    /\ display_chat_ids = NoneSet
    /\ stats_task = NoTask
    /\ caller \in WsUsers
    /\ \E host \in PushHosts, has_listener \in BOOLEAN, body_ok \in BOOLEAN :
          resp = [endpoint |-> "internal_push", host |-> host,
                  has_listener |-> has_listener, body_ok |-> body_ok,
                  status |-> 0, handed |-> FALSE]
    /\ storage_calls = <<>>
    /\ walk = NoWalk
    /\ WsIdle
    /\ AuthIdle

InternalPush ==
    LET answer == internal_push(resp.host, resp.has_listener, resp.body_ok)
    IN /\ resp.status = 0
       /\ resp' = [resp EXCEPT !.status = answer.status, !.handed = answer.handed]
       /\ UNCHANGED <<now, listener_vars, display_chat_ids, stats_task, caller, storage_calls, walk,
                      ws_vars, auth_vars>>

SpecPush == PushInit /\ [][InternalPush]_vars

\* =====================================================================
\* SpecExport: the body generator of GET /api/chats/{chat_id}/export
\* =====================================================================
\* what a message of the chat can hold
MessageTexts == {"a", "b", "c"}

\* json.dumps(msg): the text of one JSON object, as its tokens
json_dumps(msg) == <<"{", msg, "}">>

\* a generator that writes the separator before every message
Separator_Mutant(first) == <<",">>

\* `if not first: yield ",\n"`
Separator(first) == IF first THEN <<>> ELSE <<",">>

\* iter_json has been created over an iterator that will yield `messages`;
\* rest is what the iterator has not yielded yet, frame the messages the
\* generator's frame refers to, body the chunks sent so far
ExportInit ==
    /\ now = 0
    /\ ListenerConstructed(IdleConfig)
    /\ display_chat_ids = NoneSet
    /\ stats_task = NoTask
    /\ caller \in WsUsers
    /\ \E n \in 0..MaxMessages : \E messages \in [1..n -> MessageTexts] :
          resp = [endpoint |-> "export", messages |-> messages, rest |-> messages,
                  pc |-> "start", first |-> TRUE, frame |-> {}, body |-> <<>>]
    /\ storage_calls = <<>>
    /\ walk = NoWalk
    /\ WsIdle
    /\ AuthIdle

\* iter_json up to its first yield
IterJsonOpen ==
    /\ resp.pc = "start"
    /\ resp' = [resp EXCEPT !.pc = "fetch", !.body = <<"[">>]
    /\ UNCHANGED <<now, listener_vars, display_chat_ids, stats_task, caller, storage_calls, walk,
                   ws_vars, auth_vars>>

\* the generator is resumed at the head of `async for`: the iterator yields
\* its next message, which replaces the one in the frame, or ends
IterJsonFetch ==
    /\ resp.pc = "fetch"
    /\ IF resp.rest = <<>>
       THEN resp' = [resp EXCEPT !.pc = "done", !.body = @ \o <<"]">>]
       ELSE resp' = [resp EXCEPT !.pc = "dump", !.rest = Tail(@),
                                 !.frame = {Head(resp.rest)},
                                 !.body = @ \o Separator(resp.first)]
    /\ UNCHANGED <<now, listener_vars, display_chat_ids, stats_task, caller, storage_calls, walk,
                   ws_vars, auth_vars>>

\* `first = False; yield json.dumps(msg, ensure_ascii=False)`
IterJsonDump ==
    /\ resp.pc = "dump"
    /\ resp' = [resp EXCEPT !.pc = "fetch", !.first = FALSE,
                            !.body = @ \o json_dumps(CHOOSE m \in resp.frame : TRUE)]
    /\ UNCHANGED <<now, listener_vars, display_chat_ids, stats_task, caller, storage_calls, walk,
                   ws_vars, auth_vars>>

ExportNext == IterJsonOpen \/ IterJsonFetch \/ IterJsonDump

SpecExport == ExportInit /\ [][ExportNext]_vars

\* =====================================================================
\* SpecAdmin: the master-only endpoints, next to login and require_auth
\* =====================================================================
\* viewer_id of the stored accounts; 3 is the id of no account
viewer_ids == [u \in {"alice", "bob"} |-> IF u = "alice" THEN 1 ELSE 2]

\* endpoints that depend on require_master
MasterOnly ==
    {"list_viewers", "create_viewer", "update_viewer", "delete_viewer",
     "admin_chats", "admin_audit", "refresh_stats"}

\* a request to a master-only endpoint: its inputs, the role of the session
\* its cookie names ("" for none), where the handler stands (pc), the account
\* it found, and history: the tokens its username had when the change took
\* effect (before), the tokens the request removed, and the tokens successful
\* updates and deletes have removed so far (revoked)
NoAdmin ==
    [endpoint |-> "none", role |-> "", pc |-> "idle", viewer_id |-> 0, body |-> "none",
     existing |-> "", status |-> 0, before |-> {}, removed |-> {}, revoked |-> {}]

\* the requests made: for PUT and DELETE the id is alice's or unknown, and a
\* PUT body changes the password, the scope or is_active, or is refused
AdminRequests ==
    {[endpoint |-> e, viewer_id |-> 0, body |-> "none"] :
        e \in MasterOnly \ {"update_viewer", "delete_viewer"}} \cup
    {[endpoint |-> "update_viewer", viewer_id |-> 1, body |-> b] :
        b \in {"password", "allowed_chat_ids", "is_active", "short_password",
               "no_fields", "bad_json"}} \cup
    {[endpoint |-> "update_viewer", viewer_id |-> 3, body |-> "is_active"]} \cup
    {[endpoint |-> "delete_viewer", viewer_id |-> v, body |-> "none"] : v \in {1, 3}}

\* ids of the login requests made next to them
AdminLogins == {1, 2, 3}

require_master_Mutant(role) == role \in {"master", "viewer"}

\* require_master: the role passes
require_master(role) == role = "master"

InvalidateNone(sessions, username) == sessions

InvalidateOthers(sessions, username) ==
    SelectSeq(sessions, LAMBDA e : e.username = username)

\* _invalidate_user_sessions
_invalidate_user_sessions(sessions, username) ==
    SelectSeq(sessions, LAMBDA e : e.username # username)

\* tokens of the sessions of username
user_tokens(sessions, username) ==
    {sessions[k].token : k \in {i \in 1..Len(sessions) : sessions[i].username = username}}

AdminInit ==
    /\ now = 0
    /\ ListenerConstructed(IdleConfig)
    /\ display_chat_ids = NoneSet
    /\ stats_task = NoTask
    /\ caller = NoRequest.user
    /\ resp = NoAdmin
    /\ storage_calls = <<>>
    /\ walk = NoWalk
    /\ WsIdle
    /\ AuthIdle

NotAdmin == <<now, listener_vars, display_chat_ids, stats_task, caller, walk, ws_vars,
              _login_attempts, logins, login_count>>

\* require_master and the handler up to its first await on storage
AdminBegin(req, token) ==
    LET k == SessionIdx(_sessions, token)
        r == [NoAdmin EXCEPT !.endpoint = req.endpoint, !.viewer_id = req.viewer_id,
                             !.body = req.body, !.revoked = resp.revoked,
                             !.role = IF k = 0 THEN "" ELSE _sessions[k].role]
    IN /\ resp.pc \in {"idle", "done"}
       /\ auth_resp' = NoResponse
       /\ IF k = 0
          THEN /\ resp' = [r EXCEPT !.pc = "done", !.status = 401]
               /\ storage_calls' = <<>>
               /\ UNCHANGED _sessions
          ELSE IF Expired(now, _sessions[k].created_at)
          THEN /\ resp' = [r EXCEPT !.pc = "done", !.status = 401]
               /\ storage_calls' = <<>>
               /\ _sessions' = PopSession(_sessions, token)
          ELSE /\ _sessions' = [_sessions EXCEPT ![k].last_accessed = now]
               /\ IF ~require_master(_sessions[k].role)
                  THEN /\ resp' = [r EXCEPT !.pc = "done", !.status = 403]
                       /\ storage_calls' = <<>>
                  ELSE IF req.endpoint \notin {"update_viewer", "delete_viewer"}
                  THEN /\ resp' = [r EXCEPT !.pc = "done", !.status = 200]
                       /\ storage_calls' = <<req.endpoint>>
                  ELSE IF req.body = "bad_json"
                  THEN /\ resp' = [r EXCEPT !.pc = "done", !.status = 400]
                       /\ storage_calls' = <<>>
                  ELSE /\ resp' = [r EXCEPT !.pc = "get"]
                       /\ storage_calls' = <<"get_viewer_account">>
       /\ UNCHANGED <<viewers, NotAdmin>>

\* storage answers get_viewer_account; the handler runs to its next await
AdminLookup ==
    LET found == {u \in DOMAIN viewers : viewer_ids[u] = resp.viewer_id}
        username == CHOOSE u \in found : TRUE
    IN /\ resp.pc = "get"
       /\ auth_resp' = NoResponse
       /\ IF found = {}
          THEN /\ resp' = [resp EXCEPT !.pc = "done", !.status = 404]
               /\ UNCHANGED <<_sessions, storage_calls>>
          ELSE IF resp.endpoint = "delete_viewer"
          THEN /\ _sessions' = _invalidate_user_sessions(_sessions, username)
               /\ resp' = [resp EXCEPT !.pc = "write", !.existing = username,
                                       !.before = user_tokens(_sessions, username),
                                       !.removed = user_tokens(_sessions, username)]
               /\ storage_calls' = storage_calls \o
                     <<"_invalidate_user_sessions", "delete_viewer_account">>
          ELSE IF resp.body \in {"short_password", "no_fields"}
          THEN /\ resp' = [resp EXCEPT !.pc = "done", !.existing = username,
                                       !.status = 400]
               /\ UNCHANGED <<_sessions, storage_calls>>
          ELSE /\ resp' = [resp EXCEPT !.pc = "write", !.existing = username]
               /\ storage_calls' = Append(storage_calls, "update_viewer_account")
               /\ UNCHANGED _sessions
       /\ UNCHANGED <<viewers, NotAdmin>>

\* storage carries out update_viewer_account or delete_viewer_account; a new
\* password hash is not a field of the modelled row
AdminWrite ==
    LET u == resp.existing
    IN /\ resp.pc = "write"
       /\ auth_resp' = NoResponse
       /\ IF resp.endpoint = "delete_viewer"
          THEN /\ viewers' = [v \in DOMAIN viewers \ {u} |-> viewers[v]]
          ELSE /\ viewers' =
                     IF u \notin DOMAIN viewers THEN viewers
                     ELSE IF resp.body = "allowed_chat_ids"
                     THEN [viewers EXCEPT ![u].allowed_chat_ids = SomeSet({-1002})]
                     ELSE IF resp.body = "is_active"
                     THEN [viewers EXCEPT ![u].is_active = FALSE]
                     ELSE viewers
       /\ resp' = [resp EXCEPT !.pc = "resume",
                               !.before = IF resp.endpoint = "delete_viewer" THEN @
                                          ELSE user_tokens(_sessions, u)]
       /\ UNCHANGED <<_sessions, storage_calls, NotAdmin>>

\* the handler resumes after the write: update_viewer invalidates the
\* sessions; both call db.create_audit_log
AdminResume ==
    /\ resp.pc = "resume"
    /\ auth_resp' = NoResponse
    /\ IF resp.endpoint = "update_viewer"
       THEN /\ _sessions' = _invalidate_user_sessions(_sessions, resp.existing)
            /\ resp' = [resp EXCEPT !.pc = "audit",
                                    !.removed = user_tokens(_sessions, resp.existing)]
            /\ storage_calls' = storage_calls \o
                  <<"_invalidate_user_sessions", "create_audit_log">>
       ELSE /\ resp' = [resp EXCEPT !.pc = "audit"]
            /\ storage_calls' = Append(storage_calls, "create_audit_log")
            /\ UNCHANGED _sessions
    /\ UNCHANGED <<viewers, NotAdmin>>

\* the audit row is written, the response goes out
AdminFinish ==
    /\ resp.pc = "audit"
    /\ auth_resp' = NoResponse
    /\ resp' = [resp EXCEPT !.pc = "done", !.status = 200,
                            !.revoked = @ \cup resp.before \cup resp.removed]
    /\ UNCHANGED <<_sessions, viewers, storage_calls, NotAdmin>>

AdminNext ==
    \/ \E slot \in OneAtATime, username \in SessionLogins :
          /\ login_count + 1 \in AdminLogins
          /\ LoginStart(slot, "10.0.0.5", username, TRUE, TRUE)
    \/ \E slot \in OneAtATime : LoginJson(slot)
    \/ \E slot \in OneAtATime : LoginLookup(slot)
    \/ \E slot \in OneAtATime : LoginVerify(slot)
    \/ \E slot \in OneAtATime : LoginAudit(slot)
    \/ \E req \in AdminRequests, token \in Tokens : AdminBegin(req, token)
    \/ AdminLookup
    \/ AdminWrite
    \/ AdminResume
    \/ AdminFinish
    \/ \E token \in Tokens : RequireAuth(token)

SpecAdmin == AdminInit /\ [][AdminNext]_vars

\* ---------------------------------------------------------------------
\* SpecConnection: one WebSocket connection from its accept to its end,
\* next to everything that can happen to the session it was accepted under
\* and to the account behind it
\* ---------------------------------------------------------------------
\* the admin requests that change what alice may see, or remove her
ScopeChanges ==
    {req \in AdminRequests :
        /\ req.viewer_id = 1
        /\ req.endpoint = "delete_viewer" \/ req.body = "allowed_chat_ids"}

\* the master and alice have logged in from one address, in this order, and
\* no request is in flight
ConnectionInit ==
    /\ now = 0
    /\ ListenerConstructed(IdleConfig)
    /\ display_chat_ids = NoneSet
    /\ stats_task = NoTask
    /\ caller = NoRequest.user
    /\ resp = NoAdmin
    /\ storage_calls = <<>>
    /\ walk = NoWalk
    /\ WsIdle
    /\ _sessions =
          _create_session(
             _create_session(<<>>, VIEWER_USERNAME, "master", NoneSet, 0, 1),
             "alice", "viewer", StoredViewers["alice"].allowed_chat_ids, 0, 2)
    /\ _login_attempts = [ip \in {"10.0.0.5"} |-> <<0, 0>>]
    /\ viewers = StoredViewers
    /\ logins = [slot \in LoginSlots |-> NoLogin]
    /\ login_count = 2
    /\ auth_resp = NoResponse

ConnectionNext ==
    \/ AuthTick({AUTH_SESSION_SECONDS + 1})
    \/ \E token \in Tokens : WebsocketEndpoint(token)
    \/ \E ws \in WebSockets : WsDisconnect(ws)
    \/ \E ws \in WebSockets, c \in WsChats : WsSubscribe(ws, c)
    \/ \E ws \in WebSockets, c \in WsChats : WsUnsubscribe(ws, c)
    \/ \E c \in WsChats : HandleRealtimeNotification(c)
    \/ \E ok \in BOOLEAN : SendReturns(ok)
    \/ \E token \in Tokens : Logout(token)
    \/ SessionCleanup
    \/ \E req \in ScopeChanges, token \in Tokens : AdminBegin(req, token)
    \/ AdminLookup
    \/ AdminWrite
    \/ AdminResume
    \/ AdminFinish

SpecConnection == ConnectionInit /\ [][ConnectionNext]_vars

\* =====================================================================
\* Claims about the mass-operation protector and the listener
\* =====================================================================
\* ids of the entries of a sequence that belong to chat c, in sequence order
IdsOf(seq, c) ==
    LET mine == SelectSeq(seq, LAMBDA e : e.chat_id = c)
    IN [k \in 1..Len(mine) |-> mine[k].id]

AppliedIds == {db_log[k].id : k \in 1..Len(db_log)}

\* queue_operation calls i..j made for chat c
CallsFor(c, i, j) == {k \in i..j : queued[k].chat_id = c}

\* calls i..j are a burst episode of chat c: at least threshold operations
\* for c, the last one queued within buffer_delay of the first
Episode(c, i, j) ==
    /\ i <= j
    /\ queued[i].chat_id = c /\ queued[j].chat_id = c
    /\ queued[j].timestamp - queued[i].timestamp <= config.buffer_delay
    /\ Cardinality(CallsFor(c, i, j)) >= config.threshold

ZeroFootprint(c, i, j) ==
    /\ CallsFor(c, i, j) \cap AppliedIds = {}
    /\ queued[j].bursts1 - queued[i].bursts0 = 1
    /\ queued[j].discarded1 - queued[i].discarded0 = Cardinality(CallsFor(c, i, j))

\* the first operation of the episode finds the chat quiet: nothing buffered
\* for it and no active block
QuietStart(i) == queued[i].pending0 = 0 /\ ~queued[i].blocked0

C2_PassThrough ==
    (listener_running /\ protector_running) =>
        \A c \in _tracked_chat_ids :
            c \notin protector_stats.chats_protected =>
                IdsOf(db_log, c) \o IdsOf(ready_ops, c) \o IdsOf(GetOps(_pending, c), c)
                    = IdsOf(queued, c)

\* =====================================================================
\* Claims about the access scope and the read endpoints
\* =====================================================================
\* the effective scope of the caller of the last request
CallerScope == get_user_chat_ids(resp.user, display_chat_ids)

SingleChatEndpoints == {"messages", "pinned", "topics", "stats", "by-date", "export"}

\* C3: whenever the caller's scope is a finite set, every chat id in a
\* successful response (chat list, archived count, single-chat endpoints,
\* admin chat picker) is a member of that scope.
C3_ScopeContainment ==
    (resp.status = 200 /\ ~CallerScope.is_none) =>
        /\ \A k \in 1..Len(resp.chats) : resp.chats[k] \in CallerScope.ids
        /\ resp.endpoint \in SingleChatEndpoints => resp.chat_id \in CallerScope.ids

\* C4: a single-chat endpoint (messages, pinned, topics, stats, by-date,
\* export) called with a chat id outside a finite scope answers 403 and has
\* invoked no storage method; a caller whose scope is None is never
\* answered 403 by this check.
C4_SingleChatGuard ==
    resp.endpoint \in SingleChatEndpoints =>
        /\ (~CallerScope.is_none /\ resp.chat_id \notin CallerScope.ids) =>
               (resp.status = 403 /\ storage_calls = <<>>)
        /\ CallerScope.is_none => resp.status # 403

\* C4 witness: a viewer restricted to other chats asked for an export of a
\* stored chat and was refused before storage was touched
C4_Witness ==
    /\ resp.endpoint = "export"
    /\ resp.user.role = "viewer"
    /\ CallerScope = SomeSet({-1001})
    /\ resp.chat_id = -1002
    /\ resp.status = 403
    /\ storage_calls = <<>>

\* the scope the resolution table gives: M for a master and for a viewer
\* without an own list (None when M is unset or empty), A when only A is
\* set, A \cap M when both are set
TableScope(user, display) ==
    LET m_unset == display.is_none \/ display.ids = {}
    IN IF user.role = "master" \/ user.allowed_chat_ids.is_none
       THEN (IF m_unset THEN NoneSet ELSE SomeSet(display.ids))
       ELSE IF m_unset THEN SomeSet(user.allowed_chat_ids.ids)
       ELSE SomeSet(user.allowed_chat_ids.ids \cap display.ids)

\* C5: get_user_chat_ids returns the scope of the resolution table for the
\* caller of every request, and a viewer with an own list never gets None,
\* an empty intersection included.
C5_ScopeResolution ==
    resp.endpoint # "none" =>
        /\ CallerScope = TableScope(resp.user, display_chat_ids)
        /\ (resp.user.role = "viewer" /\ ~resp.user.allowed_chat_ids.is_none) =>
               ~CallerScope.is_none

\* C5 witness: M = {-1001, -1002}, A = {-1002, -1003}; the viewer is served
\* chat -1002 and refused chat -1003
C5_Witness ==
    /\ display_chat_ids = SomeSet({-1001, -1002})
    /\ resp.user.role = "viewer"
    /\ resp.user.allowed_chat_ids = SomeSet({-1002, -1003})
    /\ CallerScope = SomeSet({-1002})
    /\ resp.endpoint = "pinned"
    /\ resp.chat_id = -1003
    /\ resp.status = 403

\* ids of the stored chats that match the request's filter and are in scope
InScopeMatching ==
    IdList(SelectSeq(db_chats, LAMBDA chat :
        MatchesArchived(chat, resp.archived) /\ chat.id \in CallerScope.ids))

NoDuplicates(seq) == \A i, j \in 1..Len(seq) : seq[i] = seq[j] => i = j

\* C6: for a caller with a finite scope, GET /api/chats returns only chats
\* of the scope, total is the number of matching chats in the scope, the
\* page is cut out of the filtered list, has_more is offset + returned <
\* total, and paging from offset 0 until has_more is false yields every
\* in-scope chat exactly once.
C6_ScopedListing ==
    (resp.endpoint = "chats" /\ ~CallerScope.is_none) =>
        /\ \A k \in 1..Len(resp.chats) : resp.chats[k] \in CallerScope.ids
        /\ resp.total = Len(InScopeMatching)
        /\ resp.chats = Slice(InScopeMatching, resp.offset, resp.limit)
        /\ resp.has_more <=> (resp.offset + Len(resp.chats) < resp.total)
        /\ (walk.active /\ ~resp.has_more) =>
               (walk.chats = InScopeMatching /\ NoDuplicates(walk.chats))

\* C6 witness: a scope that leaves out a stored chat, walked in pages of one
C6_Witness ==
    /\ resp.endpoint = "chats"
    /\ CallerScope = SomeSet({-1001, -1003})
    /\ resp.archived = "None"
    /\ resp.limit = 1
    /\ resp.offset = 1
    /\ walk.active
    /\ ~resp.has_more
    /\ walk.chats = <<-1001, -1003>>
    /\ resp.total = 2

\* =====================================================================
\* Claims about the WebSocket fan-out
\* =====================================================================
\* number of send_json calls the broadcast made on connection ws
Sends(ws) == Cardinality({k \in 1..Len(bcast.sent) : bcast.sent[k].ws = ws})

\* C7: a broadcast for chat c sends the message exactly once to every
\* registered connection whose scope is None or contains c and whose
\* subscription set is empty or contains c, and to no other connection.
\* Stated on a finished broadcast (returned or raised): every connection
\* that was registered and eligible from its start on was sent to once, no
\* connection was sent to twice, and every connection sent to was eligible
\* when send_json was called.
C7_FanOutDelivery ==
    bcast.status \in {"done", "aborted"} =>
        /\ \A ws \in bcast.stable : Sends(ws) = 1
        /\ \A ws \in WebSockets : Sends(ws) <= 1
        /\ \A k \in 1..Len(bcast.sent) :
              bcast.sent[k].in_scope /\ bcast.sent[k].subscribed
\* the operations that wait in the buffer, are being applied, or have been
\* handed to storage
BufferedTypes ==
    UNION {{_pending[i].ops[k].operation_type : k \in 1..Len(_pending[i].ops)} :
              i \in 1..Len(_pending)}

InHandTypes == {ready_ops[k].operation_type : k \in 1..Len(ready_ops)}

StoredTypes == {db_log[k].operation_type : k \in 1..Len(db_log)}

\* C17: while listen_deletions is false no operation of type deletion is
\* buffered, in hand or given to storage, every queue_operation call came
\* from an edit, and of the deletion counters only deletions_skipped is not
\* zero; while listen_edits is false no operation of type edit is buffered,
\* in hand or given to storage and no edit is counted; with both off nothing
\* is ever queued or stored and deletions_skipped is the only counter that
\* moves.
C17_DeletionOptIn ==
    /\ ~config.listen_deletions =>
          /\ "deletion" \notin BufferedTypes \cup InHandTypes \cup StoredTypes
          /\ Len(queued) = listener_stats.edits_received
          /\ listener_stats.deletions_received = 0
          /\ listener_stats.deletions_applied = 0
    /\ ~config.listen_edits =>
          /\ "edit" \notin BufferedTypes \cup InHandTypes \cup StoredTypes
          /\ Len(queued) <= listener_stats.deletions_received
          /\ listener_stats.edits_received = 0
          /\ listener_stats.edits_applied = 0
    /\ (~config.listen_deletions /\ ~config.listen_edits) =>
          /\ queued = <<>> /\ _pending = <<>> /\ ready_ops = <<>> /\ db_log = <<>>
          /\ [listener_stats EXCEPT !.deletions_skipped = 0]
                = [edits_received |-> 0, edits_applied |-> 0,
                   deletions_received |-> 0, deletions_applied |-> 0,
                   deletions_skipped |-> 0, operations_discarded |-> 0,
                   errors |-> 0]

\* C17 witness: with listen_deletions off and listen_edits on, a MessageDeleted
\* event of two ids has been skipped and an edit has been applied to storage.
C17_Witness ==
    /\ ~config.listen_deletions /\ config.listen_edits
    /\ listener_stats.deletions_skipped = 2
    /\ listener_stats.edits_applied = 1
    /\ StoredTypes = {"edit"}

\* =====================================================================
\* Claims about sessions and login
\* =====================================================================
\* the validations of a session: require_auth, /api/auth/check, the
\* WebSocket upgrade
Validates(token) == RequireAuth(token) \/ CheckAuth(token) \/ WebsocketEndpoint(token)

\* C8 as stated: a session created at t0 validates at every t with
\* t0 <= t < t0 + AUTH_SESSION_SECONDS and is rejected at every
\* t >= t0 + AUTH_SESSION_SECONDS: a validation of a token in the table
\* succeeds exactly when the session is younger than AUTH_SESSION_SECONDS.
C8_SessionTTL ==
    [][\A token \in Tokens :
          LET k == SessionIdx(_sessions, token)
          IN (k # 0 /\ Validates(token))
             => (auth_resp'.status \in {200, 101}
                   <=> now - _sessions[k].created_at < AUTH_SESSION_SECONDS)]_vars

\* the sessions of username u, in table order
UserSessions(sessions, u) == SelectSeq(sessions, LAMBDA e : e.username = u)

SessionUsers(sessions) == {sessions[k].username : k \in 1..Len(sessions)}

TokensOf(entries) == {entries[k].token : k \in 1..Len(entries)}

\* a step in which a login creates a session for its username: the user's
\* sessions afterwards are the new one and, of those held before, as many of
\* the newest as the quota leaves room for
CreationKeepsNewest(slot) ==
    LET u == logins[slot].username
        before == UserSessions(_sessions, u)
        after == UserSessions(_sessions', u)
        quota == IF Len(before) + 1 < _MAX_SESSIONS_PER_USER
                 THEN Len(before) + 1 ELSE _MAX_SESSIONS_PER_USER
    IN /\ Len(after) = quota
       /\ TokensOf(after) \subseteq TokensOf(before) \cup {logins[slot].id}
       /\ \E k \in 1..Len(after) :
             after[k].token = logins[slot].id /\ after[k].created_at = now
       /\ \A i \in 1..Len(before), k \in 1..Len(after) :
             before[i].token \notin TokensOf(after)
                => before[i].created_at <= after[k].created_at

\* C9: after any login, logout, validation or sweep step each username has at
\* most _MAX_SESSIONS_PER_USER sessions in the table, and each creation of a
\* session leaves its user the newest min(n + 1, _MAX_SESSIONS_PER_USER) by
\* creation time, so that exactly _MAX_SESSIONS_PER_USER remain from the
\* creation after the quota was reached onwards.
C9_SessionQuota ==
    [][/\ \A u \in SessionUsers(_sessions') :
             Len(UserSessions(_sessions', u)) <= _MAX_SESSIONS_PER_USER
       /\ \A slot \in OneAtATime :
             (LoginVerify(slot) /\ logins'[slot].status = 200)
                => CreationKeepsNewest(slot)]_vars

\* C9 witness: a login beyond the quota has succeeded and evicted a session;
\* its user holds exactly the quota.
C9_Witness ==
    /\ auth_resp.status = 200
    /\ auth_resp.login.id > _MAX_SESSIONS_PER_USER
    /\ auth_resp.login.evicted # {}
    /\ Len(UserSessions(_sessions, auth_resp.login.username)) = _MAX_SESSIONS_PER_USER
    /\ auth_resp.login.token \in TokensOf(_sessions)

Undrawn(token) ==
    \/ token > login_count
    \/ \E slot \in LoginSlots :
          logins[slot].id = token /\ logins[slot].pc \in {"json", "lookup", "verify"}

\* C16: a logout with a token the session table holds removes exactly that
\* entry (every other session, of the same or another user, stays as it was)
\* and answers 200; every validation carrying a token the table does not hold
\* is refused (401, or close code 4001 on the WebSocket upgrade); and a token
\* that has been in the table and left it never returns: the tokens in the
\* table have been drawn, a drawn token stays drawn, and a drawn token the
\* table does not hold is not in the table after any step.
C16_Logout ==
    [][LET held == TokensOf(_sessions)
           held1 == TokensOf(_sessions')
           drawn == {token \in Tokens : ~Undrawn(token)}
           drawn1 == {token \in Tokens : ~Undrawn(token)'}
       IN /\ \A token \in held :
                (auth_resp'.audits = <<"logout">> /\ Logout(token))
                   => /\ token \notin held1
                      /\ _sessions' = SelectSeq(_sessions, LAMBDA e : e.token # token)
                      /\ Len(_sessions') = Len(_sessions) - 1
                      /\ auth_resp'.status = 200
          /\ \A token \in Tokens \ held :
                (auth_resp'.status \notin {401, 4001} \/ token \in held1)
                   => ~Validates(token)
          /\ held \subseteq drawn
          /\ drawn \subseteq drawn1
          /\ (drawn \ held) \cap held1 = {}]_vars

\* C16 witness: a logout has just removed a session while sessions of both
\* users stay in the table.
C16_Witness ==
    /\ auth_resp.status = 200 /\ auth_resp.audits = <<"logout">>
    /\ Len(_sessions) = 2
    /\ SessionUsers(_sessions) = {"admin", "alice"}

\* =====================================================================
\* Claims about /media
\* =====================================================================
MediaAnswered == resp.endpoint = "media" /\ resp.status # 0

\* the canonical path of the request lies under the media root
InsideRoot == is_relative_to(resolve(MediaDisk.root, resp.parts), MediaDisk.root)

HasDotDot == \E k \in 1..Len(resp.parts) : resp.parts[k] = ".."

\* C11 as stated, for a server whose media directory exists: every /media
\* request whose path has a `..` segment or whose canonical resolution lies
\* outside the media root is answered 403, whether or not the target exists,
\* and returns no file content.
C11_PathTraversalBlock ==
    (MediaAnswered /\ resp.has_root /\ (HasDotDot \/ ~InsideRoot))
        => (resp.status = 403 /\ resp.content = <<>>)

\* the first path segment is a signed-integer string for a chat outside the
\* finite scope of the caller
FirstSegmentOutOfScope ==
    LET scope == get_user_chat_ids(resp.user, display_chat_ids)
    IN /\ ~scope.is_none
       /\ resp.parts[1] \in {"-1001", "-1002"}
       /\ (IF resp.parts[1] = "-1001" THEN -1001 ELSE -1002) \notin scope.ids

\* C12 as stated: for a caller with finite scope, a /media request whose
\* first path segment is a signed-integer string outside the scope is
\* answered 403, whether or not the file exists.
C12_MediaScopeAnyPath ==
    (MediaAnswered /\ FirstSegmentOutOfScope) => resp.status = 403

\* C12 amended: the same, when the media directory was configured at start-up
\* and the path has at least two segments.
C12_MediaScope ==
    (MediaAnswered /\ FirstSegmentOutOfScope /\ resp.has_root /\ Len(resp.parts) >= 2)
        => (resp.status = 403 /\ resp.content = <<>>)

\* C12 witness: a request for an existing file of a chat outside the caller's
\* scope, with a canonical path inside the root, was answered 403.
C12_Witness ==
    /\ MediaAnswered /\ FirstSegmentOutOfScope /\ resp.has_root
    /\ resp.parts = <<"-1002", "a.jpg">>
    /\ resolve(MediaDisk.root, resp.parts) \in MediaDisk.files
    /\ resp.status = 403

\* =====================================================================
\* Claims about the master-only endpoints
\* =====================================================================
\* the position of a call in storage_calls, 0 when it was not made
CallIndex(call) ==
    IF \E k \in 1..Len(storage_calls) : storage_calls[k] = call
    THEN CHOOSE k \in 1..Len(storage_calls) : storage_calls[k] = call
    ELSE 0

\* C13: once a PUT /api/admin/viewers/{id} that changes the password, the
\* scope or is_active has been answered 200, no session its viewer's username
\* had when the update took effect is in the table, then or later, and
\* require_auth answers 401 to each of their tokens; an update answered 400
\* or 404 removes no session.
C13_UpdateInvalidation ==
    [][/\ resp'.revoked \cap TokensOf(_sessions') = {}
       /\ (resp'.endpoint = "update_viewer" /\ resp'.pc = "done" /\ resp'.status = 200)
             => resp'.before \subseteq resp'.revoked
       /\ \A token \in Tokens :
             (token \in resp.revoked /\ RequireAuth(token)) => auth_resp'.status = 401
       /\ (resp' # resp /\ resp'.endpoint = "update_viewer" /\ resp'.status \in {400, 404})
             => (/\ TokensOf(_sessions') = TokensOf(_sessions)
                 /\ resp'.removed = {}
                 /\ CallIndex("_invalidate_user_sessions")' = 0)]_vars

\* C13 witness: a successful update of alice took effect while she had a
\* session; after it a request with a token was answered 401, and the
\* session of the master is still in the table.
C13_Witness ==
    /\ resp.endpoint = "update_viewer" /\ resp.pc = "done" /\ resp.status = 200
    /\ resp.before # {}
    /\ auth_resp.status = 401
    /\ _sessions # <<>>

\* C14: when DELETE /api/admin/viewers/{id} has removed the account row, the
\* handler had called _invalidate_user_sessions before it called
\* delete_viewer_account and no session the username had at that call is in
\* the table; a delete answered 404 removes no session and no row.
C14_DeleteOrdering ==
    [][(resp' # resp /\ resp'.endpoint = "delete_viewer") =>
          /\ viewers' # viewers =>
                /\ 0 < CallIndex("_invalidate_user_sessions")
                /\ CallIndex("_invalidate_user_sessions")
                      < CallIndex("delete_viewer_account")
                /\ resp.before \cap TokensOf(_sessions') = {}
                /\ DOMAIN viewers' = DOMAIN viewers \ {resp.existing}
          /\ resp'.status = 404 =>
                /\ TokensOf(_sessions') = TokensOf(_sessions)
                /\ viewers' = viewers
                /\ resp'.removed = {}
                /\ storage_calls' = <<"get_viewer_account">>]_vars

\* C14 witness: the row of alice has been removed by a delete that found
\* sessions of hers and removed them.
C14_Witness ==
    /\ resp.endpoint = "delete_viewer" /\ resp.pc = "done" /\ resp.status = 200
    /\ resp.removed # {}
    /\ "alice" \notin DOMAIN viewers
    /\ resp.removed \cap TokensOf(_sessions) = {}

\* C15: a request to a master-only endpoint with a cookie no session has is
\* answered 401, one with the session of a viewer is answered 403, and in both
\* cases the handler makes no storage call and changes no row, then or while
\* the answer stands; require_auth answers 401 to a cookie no session has.
C15_RoleGating ==
    [][/\ resp'.pc # "idle" =>
             /\ resp'.role = "" => (resp'.status = 401 /\ storage_calls' = <<>>)
             /\ resp'.role = "viewer" => (resp'.status = 403 /\ storage_calls' = <<>>)
       /\ resp'.status \in {401, 403} => viewers' = viewers
       /\ (auth_resp'.status # 0 /\ auth_resp'.login.pc = "idle") =>
             \A token \in Tokens :
                (SessionIdx(_sessions, token) = 0 /\ RequireAuth(token))
                   => auth_resp'.status = 401]_vars

\* C15 witness: a DELETE of alice's account was answered 403 while alice has a
\* session and a row, and no storage call was made.
C15_Witness ==
    /\ resp.endpoint = "delete_viewer" /\ resp.viewer_id = 1 /\ resp.status = 403
    /\ resp.role = "viewer"
    /\ storage_calls = <<>>
    /\ "alice" \in DOMAIN viewers
    /\ user_tokens(_sessions, "alice") # {}

\* =====================================================================
\* Claims about /internal/push
\* =====================================================================
\* the peer is loopback (127.0.0.0/8, ::1, localhost)
IsLoopback(host) ==
    \/ host.name \in {"localhost", "::1"}
    \/ host.octets # <<>> /\ host.octets[1] = 127

\* the peer is inside 10.0.0.0/8, 172.16.0.0/12 or 192.168.0.0/16
InPrivateRange(host) ==
    /\ host.octets # <<>>
    /\ \/ host.octets[1] = 10
       \/ host.octets[1] = 172 /\ host.octets[2] \in 16..31
       \/ host.octets[1] = 192 /\ host.octets[2] = 168

\* C18 as stated: the payload of POST /internal/push is handed to the
\* real-time listener only when the direct peer is loopback or inside
\* 10.0.0.0/8, 172.16.0.0/12 or 192.168.0.0/16; a request from any other
\* address is answered 403 and its payload is not processed.
C18_InternalPushRestriction ==
    (resp.endpoint = "internal_push" /\ resp.status # 0) =>
        /\ resp.handed => (IsLoopback(resp.host) \/ InPrivateRange(resp.host))
        /\ ~(IsLoopback(resp.host) \/ InPrivateRange(resp.host))
              => (resp.status = 403 /\ ~resp.handed)

\* =====================================================================
\* Claims about the export stream
\* =====================================================================
\* the items of `obj ("," obj)*`, or <<"invalid">> when the tokens are not of
\* that form; an item is the message between the braces
RECURSIVE parse_items(_)
parse_items(toks) ==
    IF Len(toks) < 3 \/ toks[1] # "{" \/ toks[3] # "}" THEN <<"invalid">>
    ELSE IF Len(toks) = 3 THEN <<toks[2]>>
    ELSE IF toks[4] # "," THEN <<"invalid">>
    ELSE LET more == parse_items(SubSeq(toks, 5, Len(toks)))
         IN IF more = <<"invalid">> THEN more ELSE <<toks[2]>> \o more

\* json.loads of a body that is an array of objects: its items, or
\* <<"invalid">> when the body is not a JSON array
json_loads(body) ==
    IF Len(body) < 2 \/ body[1] # "[" \/ body[Len(body)] # "]" THEN <<"invalid">>
    ELSE IF Len(body) = 2 THEN <<>>
    ELSE parse_items(SubSeq(body, 2, Len(body) - 1))

Commas(body) == Cardinality({k \in 1..Len(body) : body[k] = ","})

\* C19: when the iterator has yielded its n >= 0 messages and ended, the body
\* is '[', the n messages in iteration order, each once, max(n-1, 0) commas
\* between them, and ']': a JSON array whose items are the messages; and at
\* every moment the generator's frame refers to at most one message.
C19_ExportStream ==
    resp.endpoint = "export" =>
        /\ Cardinality(resp.frame) <= 1
        /\ resp.pc = "done" =>
              LET n == Len(resp.messages)
              IN /\ json_loads(resp.body) = resp.messages
                 /\ Commas(resp.body) = IF n = 0 THEN 0 ELSE n - 1
                 /\ Len(resp.body) = 2 + 3 * n + Commas(resp.body)

\* C19 witness: a finished export of the most messages the iterator yields
\* here, two of them equal in content.
C19_Witness ==
    /\ resp.endpoint = "export" /\ resp.pc = "done"
    /\ Len(resp.messages) = MaxMessages
    /\ resp.messages[1] = resp.messages[MaxMessages]
    /\ json_loads(resp.body) = resp.messages

\* =====================================================================
\* Claims about concurrent logins
\* =====================================================================
\* C20 as stated: with several login requests of one address in flight at
\* once, the attempt list of the address never holds more than
\* _LOGIN_RATE_LIMIT timestamps inside one window, so at most that many
\* requests reach credential verification in it.
C20_RateLimitConcurrent ==
    \A ip \in DOMAIN _login_attempts :
        Len(recent_attempts(_login_attempts, ip, now)) <= _LOGIN_RATE_LIMIT

\* =====================================================================
\* Claims about account deletion next to a login
\* =====================================================================
\* C21 as stated: once DELETE /api/admin/viewers/{id} has completed, the
\* session table holds no session of the deleted username, also when a login
\* of that username runs between the steps of the delete.
C21_NoSessionSurvivesDeletion ==
    (resp.endpoint = "delete_viewer" /\ resp.pc = "done" /\ resp.status = 200)
        => resp.existing \notin SessionUsers(_sessions)

\* =====================================================================
\* Claims about a broadcast next to connects and disconnects
\* =====================================================================
\* C22 as stated: a connect or disconnect during an awaited send of
\* broadcast_to_chat never aborts the broadcast, and a broadcast that has
\* returned has sent the event to every connection that was registered and
\* eligible from its start on and is still connected.
C22_StableSnapshot ==
    /\ bcast.status # "aborted"
    /\ bcast.status = "done" =>
          \A ws \in bcast.stable :
             IsConnected(active_connections, ws) => Sends(ws) >= 1

\* =====================================================================
\* Claims about the block that follows a burst
\* =====================================================================
\* call i of queue_operation detected a burst
IsBurst(i) == queued[i].bursts1 = queued[i].bursts0 + 1

\* call i detected the last burst of its chat before call j
LastBurstBefore(i, j) ==
    /\ i < j
    /\ queued[i].chat_id = queued[j].chat_id
    /\ IsBurst(i)
    /\ \A k \in (i + 1)..(j - 1) :
          queued[k].chat_id = queued[i].chat_id => ~IsBurst(k)

\* call j is the first for its chat at or after the end of the block that
\* call i armed
FirstAfterBlock(i, j) ==
    /\ LastBurstBefore(i, j)
    /\ queued[j].timestamp >= queued[i].timestamp + config.window_seconds
    /\ \A k \in (i + 1)..(j - 1) :
          queued[k].chat_id = queued[i].chat_id
             => queued[k].timestamp < queued[i].timestamp + config.window_seconds

\* call j is rejected, counts one discarded operation and leaves no pending
\* operation for its chat
RejectedAlone(j) ==
    /\ ~queued[j].ret
    /\ ~IsBurst(j)
    /\ queued[j].discarded1 = queued[j].discarded0 + 1
    /\ queued[j].pending1 = 0

\* call j is accepted and leaves no block record for its chat
AcceptedUnblocked(j) == queued[j].ret /\ ~queued[j].record1

\* C23 as stated, for any threshold: after a burst on a chat at time t every
\* queue_operation for it earlier than t + window_seconds is rejected, counts
\* one discarded operation and leaves the chat without pending operations;
\* the first one at t + window_seconds or later is accepted and the expired
\* block record is removed.
C23_BlockDurationAnyThreshold ==
    \A i, j \in 1..Len(queued) :
        /\ (/\ LastBurstBefore(i, j)
            /\ queued[j].timestamp < queued[i].timestamp + config.window_seconds)
              => RejectedAlone(j)
        /\ FirstAfterBlock(i, j) => AcceptedUnblocked(j)

\* C23 amended: the same for a threshold of at least 2 (with a threshold of 1
\* the first operation after the block is a burst of its own).
C23_BlockDuration ==
    config.threshold >= 2 => C23_BlockDurationAnyThreshold

\* C23 witness: a burst of two operations at one instant, then the first
\* operation at the very end of the block, accepted, the record gone.
C23_Witness ==
    /\ config.threshold = 2
    /\ Len(queued) = 3
    /\ FirstAfterBlock(2, 3)
    /\ queued[3].timestamp = queued[2].timestamp + config.window_seconds
    /\ AcceptedUnblocked(3)

\* =====================================================================
\* Claims about release (_process_pending / get_ready_operations)
\* =====================================================================
\* the operations a pending dict holds
OpsOf(p) == UNION {{p[i].ops[k] : k \in 1..Len(p[i].ops)} : i \in 1..Len(p)}

OpsIn(seq) == {seq[k] : k \in 1..Len(seq)}

\* the pending operations buffered for longer than buffer_delay whose chat
\* is not blocked
Due(S, t) ==
    {op \in OpsOf(S.pending) :
        /\ op.timestamp < t - config.buffer_delay
        /\ ~is_blocked(S.blocked, op.chat_id, t)}

\* C24: in every reachable state a release call returns exactly the pending
\* operations with timestamp < now - buffer_delay of chats that are not
\* blocked, each once, and removes them from the buffer; a second call at the
\* same instant returns nothing and changes nothing; and no operation is
\* returned twice: what the listener was handed and what it has applied
\* holds no operation twice and none that is still pending.
C24_ReleaseIdempotent ==
    LET first == _process_pending(Protector, now)
        second == _process_pending(first, now)
        handed == [k \in 1..Len(db_log) |-> db_log[k].id]
                    \o [k \in 1..Len(ready_ops) |-> ready_ops[k].id]
    IN /\ OpsIn(first.result) = Due(Protector, now)
       /\ Len(first.result) = Cardinality(Due(Protector, now))
       /\ \A k \in 1..Len(first.result) :
             now - first.result[k].timestamp > config.buffer_delay
       /\ OpsOf(first.pending) = OpsOf(_pending) \ Due(Protector, now)
       /\ second.result = <<>>
       /\ second.pending = first.pending
       /\ second.blocked = first.blocked
       /\ second.stats = first.stats
       /\ \A i, j \in 1..Len(handed) : handed[i] = handed[j] => i = j
       /\ {op.id : op \in OpsOf(_pending)} \cap OpsIn(handed) = {}

\* C24 witness: a release has just handed the listener an operation while a
\* younger one of the same chat stays buffered, and a second call now would
\* return nothing.
C24_Witness ==
    /\ ready_ops # <<>>
    /\ \E op \in OpsOf(_pending) :
          /\ op.chat_id = ready_ops[1].chat_id
          /\ op.timestamp >= now - config.buffer_delay
    /\ ready_ops[1].timestamp < now - config.buffer_delay
    /\ _process_pending(Protector, now).result = <<>>

\* ---------------------------------------------------------------------
\* C25: the operations of one chat are handed to the listener, and applied
\* to storage, in the order in which they were queued, within one release
\* call and across calls; operations of different chats may be reordered.
\* An operation's id is its position among the queue_operation calls, and
\* the storage calls are the handed operations without those still in the
\* listener's hand.
\* ---------------------------------------------------------------------
Handed ==
    [k \in 1..Len(db_log) |-> [id |-> db_log[k].id, chat_id |-> db_log[k].chat_id]]
        \o [k \in 1..Len(ready_ops) |->
               [id |-> ready_ops[k].id, chat_id |-> ready_ops[k].chat_id]]

C25_PerChatOrder ==
    /\ \A i, j \in 1..Len(Handed) :
          (i < j /\ Handed[i].chat_id = Handed[j].chat_id)
              => /\ Handed[i].id < Handed[j].id
                 /\ queued[Handed[i].id].timestamp <= queued[Handed[j].id].timestamp
    /\ \A i \in 1..Len(_pending) : \A k, m \in 1..Len(_pending[i].ops) :
          k < m => _pending[i].ops[k].id < _pending[i].ops[m].id
    /\ \A k \in 1..Len(Handed) : \A op \in OpsOf(_pending) :
          op.chat_id = Handed[k].chat_id => Handed[k].id < op.id

\* C25 witness: two operations of one chat were released by one call and
\* applied in queue order, with an operation of another chat, queued between
\* them, applied after both
C25_Witness ==
    /\ Len(db_log) = 3
    /\ db_log[1].chat_id = db_log[2].chat_id
    /\ db_log[1].id < db_log[2].id
    /\ db_log[3].chat_id # db_log[1].chat_id
    /\ db_log[3].id < db_log[2].id
    /\ db_log[3].id > db_log[1].id

\* ---------------------------------------------------------------------
\* C26: for every chat, the number of operations applied to storage inside
\* any interval of window_seconds is at most threshold.
\* ---------------------------------------------------------------------
AppliedInWindow(chat_id, start) ==
    {k \in 1..Len(db_log) :
        /\ db_log[k].chat_id = chat_id
        /\ db_log[k].ok
        /\ storage_calls[k] >= start
        /\ storage_calls[k] < start + config.window_seconds}

C26_ThresholdPerWindow ==
    \A chat_id \in _tracked_chat_ids : \A start \in 0..WindowHorizon :
        Cardinality(AppliedInWindow(chat_id, start)) <= config.threshold

\* ---------------------------------------------------------------------
\* C27: after six edits of chat -1001 have arrived at one clock reading
\* under threshold 5, window 10 s and buffer delay 2 s, the protector has
\* bursts_detected = 1, operations_discarded = 6, operations_applied = 0,
\* nothing pending, and a block record for -1001 with discarded count 6.
\* ---------------------------------------------------------------------
S1Arrived ==
    /\ Len(queued) = S1.events
    /\ \A i \in 1..Len(queued) : queued[i].timestamp = queued[1].timestamp

\* what get_stats reports
S1Stats ==
    /\ protector_stats.bursts_detected = 1
    /\ protector_stats.operations_discarded = 6
    /\ protector_stats.operations_applied = 0
    /\ _pending = <<>>
    /\ db_log = <<>>

C27_ScenarioS1 ==
    S1Arrived =>
        /\ S1Stats
        /\ S1.chat_id \in DOMAIN _blocked
        /\ _blocked[S1.chat_id].discarded = 6

\* ---------------------------------------------------------------------
\* C28: when the listener shuts down, every operation that is in the buffer
\* and already older than buffer_delay has been applied to storage by the
\* time the shutdown is over.
\* ---------------------------------------------------------------------
StoredIds(log) == {log[k].id : k \in 1..Len(log)}

C28_ShutdownDrain ==
    [][(listener_running /\ ~listener_running')
          => \A op \in OpsOf(_pending) :
                op.timestamp < now - config.buffer_delay
                    => op.id \in StoredIds(db_log')]_vars

\* ---------------------------------------------------------------------
\* C29: a storage call that raises adds one to the error counter and
\* nothing else: the operation counts as neither applied edit nor applied
\* deletion, the rest of the batch stays in the listener's hand in its
\* order, the listener keeps running and the protector is untouched, so
\* later batches are collected as before.
\* ---------------------------------------------------------------------
C29_ApplyErrorIsolation ==
    [][(Len(db_log') = Len(db_log) + 1 /\ ~db_log'[Len(db_log')].ok)
          => /\ listener_stats' = [listener_stats EXCEPT !.errors = @ + 1]
             /\ ready_ops # <<>>
             /\ db_log'[Len(db_log')].id = Head(ready_ops).id
             /\ ready_ops' = Tail(ready_ops)
             /\ listener_running'
             /\ UNCHANGED <<_pending, _blocked, protector_stats,
                            protector_running>>]_vars

\* C29 witness: the first storage call of a batch of two raised, the second
\* operation of the batch was applied after it, the listener is still
\* running and its next release call returns a further batch
C29_Witness ==
    /\ Len(db_log) = 2
    /\ listener_stats.errors = 1
    /\ ~db_log[1].ok /\ db_log[2].ok
    /\ db_log[1].chat_id = db_log[2].chat_id
    /\ queued[db_log[1].id].timestamp = queued[db_log[2].id].timestamp
    /\ ready_ops = <<>>
    /\ listener_running
    /\ _process_pending(Protector, now).result # <<>>

\* ---------------------------------------------------------------------
\* C30: in every reachable state the number of queue_operation calls made
\* so far equals operations_applied + operations_discarded + the number of
\* operations in the buffer, for the protector as a whole; no counter is
\* negative, so no operation is counted twice.
\* ---------------------------------------------------------------------
\* sum(len(ops) for ops in self._pending.values())
PendingOperations ==
    LET total[i \in 0..Len(_pending)] ==
            IF i = 0 THEN 0 ELSE total[i - 1] + Len(_pending[i].ops)
    IN total[Len(_pending)]

C30_OperationConservation ==
    /\ Len(queued) = protector_stats.operations_applied
                        + protector_stats.operations_discarded
                        + PendingOperations
    /\ protector_stats.operations_applied >= 0
    /\ protector_stats.operations_discarded >= 0
    /\ \A i \in 1..Len(_pending) : \A k \in 1..Len(_pending[i].ops) :
          queued[_pending[i].ops[k].id].ret

\* C30 witness: three calls, one operation released, one discarded by a
\* burst together with the call that set the burst off
C30_Witness ==
    /\ Len(queued) = 3
    /\ protector_stats.operations_applied = 1
    /\ protector_stats.operations_discarded = 2
    /\ protector_stats.bursts_detected = 1
    /\ PendingOperations = 0

\* ---------------------------------------------------------------------
\* C31: in every reachable state each chat in the pending map has at least
\* one and fewer than threshold buffered operations, appears there once,
\* and no chat whose block has not expired has anything buffered.
\* ---------------------------------------------------------------------
C31_PendingBound ==
    /\ \A i \in 1..Len(_pending) :
          /\ Len(_pending[i].ops) >= 1
          /\ Len(_pending[i].ops) <= config.threshold - 1
          /\ ~is_blocked(_blocked, _pending[i].chat_id, now)
          /\ \A k \in 1..Len(_pending[i].ops) :
                _pending[i].ops[k].chat_id = _pending[i].chat_id
    /\ \A i, j \in 1..Len(_pending) :
          _pending[i].chat_id = _pending[j].chat_id => i = j

\* C31 witness: one chat holds threshold - 1 operations while another chat
\* is blocked after a burst
C31_Witness ==
    /\ \E i \in 1..Len(_pending) : Len(_pending[i].ops) = config.threshold - 1
    /\ \E c \in DOMAIN _blocked : is_blocked(_blocked, c, now)

\* ---------------------------------------------------------------------
\* C32: a caller with a finite scope is never sent a file that lies in the
\* directory of a chat outside the scope, nor a thumbnail kept under
\* .thumbs for such a chat, whatever the requested path.
\* ---------------------------------------------------------------------
\* the chat a file under the media root belongs to (NoChat: none)
ChatOfFile(file) ==
    LET rel == SubSeq(file, Len(MediaDisk.root) + 1, Len(file))
    IN IF ~is_relative_to(file, MediaDisk.root) \/ Len(rel) < 2 THEN NoChat
       ELSE IF rel[1] \in DOMAIN int THEN int[rel[1]]
       ELSE IF rel[1] = ".thumbs" /\ Len(rel) = 4 /\ rel[3] \in DOMAIN int
       THEN int[rel[3]]
       ELSE NoChat

ServedOutOfScope ==
    LET scope == get_user_chat_ids(resp.user, display_chat_ids)
    IN /\ MediaAnswered
       /\ resp.status = 200
       /\ ~scope.is_none
       /\ ChatOfFile(resp.content) # NoChat
       /\ ChatOfFile(resp.content) \notin scope.ids

C32_MediaScopeCanonical == ~ServedOutOfScope

\* ---------------------------------------------------------------------
\* C33: the subscription set of every registered connection with a finite
\* scope is a subset of that scope, and no step adds a chat outside the
\* scope to a connection's subscriptions.
\* ---------------------------------------------------------------------
FiniteScope(ws) == IsConnected(active_connections, ws) /\ ~_allowed_chats[ws].is_none

C33_SubscriptionContainment ==
    \A ws \in WebSockets :
        FiniteScope(ws)
            => active_connections[ws].subscribed_chats \subseteq _allowed_chats[ws].ids

\* C33 witness: a connection scoped to one chat is subscribed to it and to
\* nothing else, next to an unrestricted connection subscribed to the
\* other chat
C33_Witness ==
    \E ws, other \in WebSockets :
        /\ FiniteScope(ws)
        /\ _allowed_chats[ws].ids = {-1001}
        /\ active_connections[ws].subscribed_chats = {-1001}
        /\ IsConnected(active_connections, other)
        /\ _allowed_chats[other].is_none
        /\ active_connections[other].subscribed_chats = {-1002}

\* ---------------------------------------------------------------------
\* C34: no step changes the scope recorded for a connection that stays
\* registered; a connection leaves the registry only by a disconnect (its
\* own, or the clean-up after a failed send), never by a step that ends a
\* session or changes an account; and every send is to a connection whose
\* recorded scope admits the chat.
\* ---------------------------------------------------------------------
C34_ScopeFixedAtAccept ==
    [][/\ \A ws \in WebSockets :
             IsConnected(active_connections, ws)
                => IF IsConnected(active_connections', ws)
                   THEN _allowed_chats'[ws] = _allowed_chats[ws]
                   ELSE UNCHANGED <<now, _sessions, viewers, resp>>
       /\ \A k \in 1..Len(bcast'.sent) : bcast'.sent[k].in_scope]_vars

\* C34 witness: alice's connection, accepted when her scope was {-1001}, is
\* being sent an event of chat -1001 after her account was given another
\* scope and her sessions were ended
C34_Witness ==
    /\ IsConnected(active_connections, 1)
    /\ _allowed_chats[1] = SomeSet({-1001})
    /\ "alice" \in DOMAIN viewers
    /\ viewers["alice"].allowed_chat_ids = SomeSet({-1002})
    /\ "alice" \notin SessionUsers(_sessions)
    /\ resp.pc = "done" /\ resp.status = 200
    /\ bcast.status = "sending"
    /\ bcast.chat_id = -1001
    /\ bcast.pos = 1

\* ---------------------------------------------------------------------
\* C35: when a broadcast in which a send failed is over, every connection
\* whose send failed is out of the registry, and every connection that was
\* registered and eligible from the start of the broadcast on, and whose
\* send did not fail before, was sent the message.
\* ---------------------------------------------------------------------
FailedSends == {bcast.disconnected[k] : k \in 1..Len(bcast.disconnected)}

C35_SendFailureHandling ==
    (bcast.status \in {"done", "aborted"} /\ FailedSends # {})
        => /\ \A ws \in FailedSends : ~IsConnected(active_connections, ws)
           /\ \A ws \in bcast.stable : Sends(ws) = 1

\* ---------------------------------------------------------------------
\* C36: no step changes the username, role, allowed_chat_ids or created_at
\* of a session that stays in the table; a step that creates a session for
\* a username leaves every session of the other usernames in the table as
\* it was, and removes sessions of that username only if it held
\* _MAX_SESSIONS_PER_USER or more.
\* ---------------------------------------------------------------------
SameIdentity(e, f) ==
    /\ e.username = f.username
    /\ e.role = f.role
    /\ e.allowed_chat_ids = f.allowed_chat_ids
    /\ e.created_at = f.created_at

C36_EvictionFrame ==
    [][LET created == {j \in 1..Len(_sessions') :
                          _sessions'[j].token \notin TokensOf(_sessions)}
           kept(k) == {j \in 1..Len(_sessions') :
                          _sessions'[j].token = _sessions[k].token}
       IN /\ \A k \in 1..Len(_sessions) : \A j \in kept(k) :
                SameIdentity(_sessions[k], _sessions'[j])
          /\ \A n \in created : \A k \in 1..Len(_sessions) :
                IF _sessions[k].username # _sessions'[n].username
                THEN \E j \in kept(k) : _sessions'[j] = _sessions[k]
                ELSE kept(k) = {}
                        => Len(UserSessions(_sessions, _sessions'[n].username))
                              >= _MAX_SESSIONS_PER_USER]_vars

\* C36 witness: the master's session, created at 0 and validated when its
\* age was AUTH_SESSION_SECONDS, stands unchanged next to a session just
\* created for alice
C36_Witness ==
    /\ Len(_sessions) = 2
    /\ _sessions[1].username = VIEWER_USERNAME
    /\ _sessions[1].created_at = 0
    /\ _sessions[1].last_accessed = AUTH_SESSION_SECONDS
    /\ _sessions[2].username = "alice"
    /\ _sessions[2].created_at = now
    /\ auth_resp.status = 200
    /\ auth_resp.login.token = _sessions[2].token

\* ---------------------------------------------------------------------
\* C37: a login request answered 400, 401 or 429 has created no session, and
\* the step that settles such an answer leaves the session table as it was;
\* a session appears only in the step of a login that is answered 200, and
\* a session of role "viewer" only for an account that storage holds, that
\* is active and whose password was the one given; a request for an account
\* that is deactivated or whose password is wrong ends in 401.
\* ---------------------------------------------------------------------
FailedStatus == {400, 401, 429}

\* the sessions a step adds to the table, and those it takes out of it
SessionsMade == TokensOf(_sessions') \ TokensOf(_sessions)
SessionsGone == TokensOf(_sessions) \ TokensOf(_sessions')

C37_FailedLoginNoSession ==
    [][/\ \A slot \in LoginSlots :
             (logins'[slot] # logins[slot] /\ logins'[slot].status \in FailedStatus)
                => _sessions' = _sessions
       /\ (auth_resp'.login.pc = "done" /\ auth_resp'.status \in FailedStatus)
             => /\ auth_resp'.login.id \notin TokensOf(_sessions')
                /\ _sessions' = _sessions
       /\ SessionsMade # {}
             => \E slot \in LoginSlots :
                   /\ logins[slot].pc = "verify"
                   /\ logins'[slot].status = 200
                   /\ SessionsMade = {logins[slot].id}
                   /\ \A k \in 1..Len(_sessions') :
                         (_sessions'[k].token = logins[slot].id
                             /\ _sessions'[k].role = "viewer")
                            => /\ logins[slot].username \in DOMAIN viewers
                               /\ viewers[logins[slot].username].is_active
                               /\ logins[slot].password_ok
       /\ SessionsGone # {}
             => \/ \E slot \in LoginSlots :
                      logins[slot].pc = "verify" /\ logins'[slot].status = 200
                \/ \A k \in 1..Len(_sessions) :
                      _sessions[k].token \in SessionsGone
                         => Expired(now, _sessions[k].created_at)
       /\ \A slot \in LoginSlots :
             (logins[slot].pc = "verify" /\ logins'[slot].pc = "audit"
                 /\ logins[slot].username \in DOMAIN viewers
                 /\ (~viewers[logins[slot].username].is_active
                        \/ ~logins[slot].password_ok))
                => logins'[slot].status = 401 /\ _sessions' = _sessions]_vars

\* C37 witness: while alice holds a session, a login for the deactivated
\* account bob with bob's own password has been answered 401, and the table
\* holds alice's session and no other.
C37_Witness ==
    /\ auth_resp.login.pc = "done"
    /\ auth_resp.status = 401
    /\ auth_resp.login.username = "bob"
    /\ auth_resp.login.password_ok
    /\ auth_resp.login.viewer_found
    /\ Len(_sessions) = 1
    /\ _sessions[1].username = "alice"
    /\ _sessions[1].role = "viewer"
\* ---------------------------------------------------------------------
\* C38: a pass of the clean-up task removes exactly the sessions whose age
\* has reached AUTH_SESSION_SECONDS (now - created_at >= AUTH_SESSION_SECONDS)
\* and exactly the IP entries all of whose timestamps are older than the rate
\* window, and leaves what it keeps as it was.
\* ---------------------------------------------------------------------
\* a pass of session_cleanup_task that removed something: the only step that
\* changes a table while no request is being handled and the clock stands
SweepStep ==
    /\ now' = now
    /\ logins' = logins
    /\ login_count' = login_count
    /\ auth_resp' = NoResponse
    /\ _sessions' # _sessions \/ _login_attempts' # _login_attempts

\* what a pass does to the login-attempt table
SweepsStaleIps ==
    /\ \A ip \in DOMAIN _login_attempts :
          ip \notin DOMAIN _login_attempts'
             <=> \A k \in 1..Len(_login_attempts[ip]) :
                    now - _login_attempts[ip][k] > _LOGIN_RATE_WINDOW
    /\ \A ip \in DOMAIN _login_attempts' :
          /\ ip \in DOMAIN _login_attempts
          /\ _login_attempts'[ip] = _login_attempts[ip]

C38_SweepExact ==
    [][SweepStep =>
          /\ \A k \in 1..Len(_sessions) :
                _sessions[k].token \notin TokensOf(_sessions')
                   <=> now - _sessions[k].created_at >= AUTH_SESSION_SECONDS
          /\ _sessions' = SelectSeq(_sessions, LAMBDA e :
                                        e.token \in TokensOf(_sessions'))
          /\ SweepsStaleIps]_vars

\* the same with the age test of the code: a pass removes the sessions older
\* than AUTH_SESSION_SECONDS, which are those require_auth rejects
C38_SweepStrict ==
    [][SweepStep =>
          /\ \A k \in 1..Len(_sessions) :
                _sessions[k].token \notin TokensOf(_sessions')
                   <=> Expired(now, _sessions[k].created_at)
          /\ _sessions' = SelectSeq(_sessions, LAMBDA e :
                                        e.token \in TokensOf(_sessions'))
          /\ SweepsStaleIps]_vars
\* =====================================================================
\* web/main.py: stats_calculation_scheduler
\* =====================================================================
HOUR == 3600
DAY == 24 * HOUR

\* the calendar the scheduler runs through: a January and the February after
\* it; instants are seconds since January 1st, 00:00, in the configured zone
MonthLengths == <<31, 28>>

\* the day the task is created on (January 30th) and the last day looked at
\* (February 2nd), counted from 0
StartDay == MonthLengths[1] - 2
MaxDay == 32

DayIndex(t) == t \div DAY

\* datetime.hour, datetime.day and the length of the month of an instant
hour(t) == (t % DAY) \div HOUR

day(t) ==
    IF DayIndex(t) < MonthLengths[1] THEN DayIndex(t) + 1
    ELSE DayIndex(t) - MonthLengths[1] + 1

days_in_month(t) ==
    IF DayIndex(t) < MonthLengths[1] THEN MonthLengths[1] ELSE MonthLengths[2]

\* stats_calculation_scheduler from the top of its loop at instant t to the
\* sleep it ends in: next_run is the instant that sleep returns.
\* now.replace(day=now.day + 1) raises ValueError on the last day of a
\* month, and the handler of Exception sleeps 3600 s
stats_calculation_scheduler(t, target_hour, created) ==
    LET today == t - (t % DAY) + target_hour * HOUR
    IN IF hour(t) >= target_hour
       THEN IF day(t) + 1 > days_in_month(t)
            THEN [pc |-> "retry", next_run |-> t + HOUR, created |-> created]
            ELSE [pc |-> "sleep", next_run |-> today + DAY, created |-> created]
       ELSE [pc |-> "sleep", next_run |-> today, created |-> created]

\* the hours STATS_CALCULATION_HOUR can name, and the instants of the start
\* day at which lifespan creates the task
TargetHours == 0..23
StartTimes == {StartDay * DAY + k * (HOUR \div 2) : k \in 0..47}

SchedulerInit ==
    /\ now \in StartTimes
    /\ \E h \in TargetHours :
          /\ ListenerConstructed(("stats_calculation_hour" :> h) @@ IdleConfig)
          /\ stats_task = stats_calculation_scheduler(now, h, now)
    /\ display_chat_ids = NoneSet
    /\ caller = NoRequest.user
    /\ resp = NoRequest
    /\ storage_calls = <<>>
    /\ walk = NoWalk
    /\ WsIdle
    /\ AuthIdle

NotScheduler ==
    <<listener_vars, display_chat_ids, caller, resp, walk, ws_vars, auth_vars>>

\* the sleep until next_run returns and db.calculate_and_store_statistics
\* is awaited: it returns (ok) or raises; storage_calls takes the instant of
\* the call
SchedulerRun(ok) ==
    /\ stats_task.pc = "sleep"
    /\ DayIndex(stats_task.next_run) <= MaxDay
    /\ now' = stats_task.next_run
    /\ storage_calls' = Append(storage_calls, now')
    /\ stats_task' =
          IF ok
          THEN stats_calculation_scheduler(now', config.stats_calculation_hour,
                                           stats_task.created)
          ELSE [stats_task EXCEPT !.pc = "retry", !.next_run = now' + HOUR]
    /\ UNCHANGED NotScheduler

\* the sleep of the Exception handler returns and the loop starts over
SchedulerRetry ==
    /\ stats_task.pc = "retry"
    /\ DayIndex(stats_task.next_run) <= MaxDay
    /\ now' = stats_task.next_run
    /\ stats_task' = stats_calculation_scheduler(now', config.stats_calculation_hour,
                                                  stats_task.created)
    /\ UNCHANGED <<storage_calls, NotScheduler>>

\* stats_task.cancel() while the task is in one of its sleeps
SchedulerCancel ==
    /\ stats_task.pc \in {"sleep", "retry"}
    /\ stats_task' = [stats_task EXCEPT !.pc = "cancelled"]
    /\ UNCHANGED <<now, storage_calls, NotScheduler>>

SchedulerNext ==
    \/ \E ok \in BOOLEAN : SchedulerRun(ok)
    \/ SchedulerRetry
    \/ SchedulerCancel

SpecScheduler == SchedulerInit /\ [][SchedulerNext]_vars

\* ---------------------------------------------------------------------
\* C39: while the scheduler task has not been cancelled, every day after
\* the one it was created on has, once its configured hour has come,
\* exactly one call of calculate_and_store_statistics, made at that hour.
\* ---------------------------------------------------------------------
\* the calls of calculate_and_store_statistics made on day d
RunsOn(d) == {k \in 1..Len(storage_calls) : DayIndex(storage_calls[k]) = d}

RanOnceAtHour(d) ==
    LET t == d * DAY + config.stats_calculation_hour * HOUR
    IN now >= t => \E k \in 1..Len(storage_calls) :
                      RunsOn(d) = {k} /\ storage_calls[k] = t

C39_DailySchedule ==
    stats_task.pc \in {"sleep", "retry"}
       => \A d \in (DayIndex(stats_task.created) + 1)..MaxDay : RanOnceAtHour(d)

\* the same, leaving out the first day of a month when the configured hour
\* is 0
C39_ExceptMidnightOfTheFirst ==
    stats_task.pc \in {"sleep", "retry"}
       => \A d \in (DayIndex(stats_task.created) + 1)..MaxDay :
             (config.stats_calculation_hour = 0 /\ day(d * DAY) = 1)
                \/ RanOnceAtHour(d)
\* =====================================================================
\* web/main.py: _normalize_display_chat_ids
\* =====================================================================
\* the offset of the marked form of a channel id, -(MARK + id). The program
\* has 10^12; TLC's integers end at 2^31 - 1, and 10^9 keeps the marked ids
\* as far from every other id as the program has them
MARK == 1000000000

marked_id(chat_id) == 0 - MARK - chat_id

MaxStartups == 2

\* the ids DISPLAY_CHAT_IDS can name, and the ids storage can hold
FilterIds == {5, 7, -1001, -1002}
StorageIds == {5, -1001, marked_id(5), marked_id(7)}

\* a normalisation that marks every positive id storage does not hold
normalized_Mutant(display, existing_ids) ==
    SomeSet({IF chat_id \in existing_ids \/ chat_id <= 0
             THEN chat_id ELSE marked_id(chat_id) : chat_id \in display.ids})

\* the loop of _normalize_display_chat_ids over config.display_chat_ids
normalized(display, existing_ids) ==
    SomeSet({IF chat_id \in existing_ids THEN chat_id
             ELSE IF chat_id > 0
                  THEN IF marked_id(chat_id) \in existing_ids
                       THEN marked_id(chat_id)
                       ELSE chat_id
                  ELSE chat_id : chat_id \in display.ids})

NormalizeInit ==
    /\ now = 0
    /\ ListenerConstructed(IdleConfig)
    /\ display_chat_ids \in {NoneSet} \cup {SomeSet(M) : M \in SUBSET FilterIds \ {{}}}
    /\ stats_task = NoTask
    /\ caller = NoRequest.user
    /\ resp = NoRequest
    /\ storage_calls = <<>>
    /\ walk = NoWalk
    /\ WsIdle
    /\ AuthIdle

\* lifespan calls _normalize_display_chat_ids; storage_calls takes the ids
\* db.get_all_chats answered with. An empty filter returns before the call
_normalize_display_chat_ids(existing_ids) ==
    /\ Len(storage_calls) < MaxStartups
    /\ IF master_filter(display_chat_ids) = NoneSet
       THEN UNCHANGED <<display_chat_ids, storage_calls>>
       ELSE /\ storage_calls' = Append(storage_calls, existing_ids)
            /\ display_chat_ids' = normalized(display_chat_ids, existing_ids)
    /\ UNCHANGED <<now, listener_vars, stats_task, caller, resp, walk, ws_vars,
                   auth_vars>>

NormalizeNext ==
    \E existing_ids \in SUBSET StorageIds : _normalize_display_chat_ids(existing_ids)

SpecNormalize == NormalizeInit /\ [][NormalizeNext]_vars

\* ---------------------------------------------------------------------
\* C40: a pass of the normalisation keeps every id of the filter that
\* storage holds, puts -(MARK + id) in the place of a positive id that
\* storage does not hold when storage holds that marked id, keeps every
\* other id of the filter, and adds nothing else; a pass against the ids
\* the pass before it was answered with changes nothing.
\* ---------------------------------------------------------------------
C40_DisplayAutoCorrection ==
    [][storage_calls' # storage_calls =>
          LET existing_ids == storage_calls'[Len(storage_calls')]
              M == display_chat_ids.ids
              N == display_chat_ids'.ids
              replaced(id) == id > 0 /\ id \notin existing_ids
                                 /\ marked_id(id) \in existing_ids
          IN /\ ~display_chat_ids'.is_none
             /\ \A id \in M :
                   IF replaced(id)
                   THEN marked_id(id) \in N /\ id \notin N
                   ELSE id \in N
             /\ N \subseteq M \cup {marked_id(id) : id \in M}
             /\ (storage_calls # <<>>
                    /\ storage_calls[Len(storage_calls)] = existing_ids)
                   => display_chat_ids' = display_chat_ids]_vars

\* C40 witness: after two passes against a storage that holds -1001 and the
\* marked forms of 5 and 7 but neither 5, 7 nor -1002, the filter holds
\* the marked form of 5 in the place of 5, which only a pass can have put
\* there, next to -1001 and the unknown -1002.
C40_Witness ==
    /\ Len(storage_calls) = 2
    /\ storage_calls[1] = {-1001, marked_id(5), marked_id(7)}
    /\ storage_calls[2] = storage_calls[1]
    /\ display_chat_ids = SomeSet({marked_id(5), -1001, -1002})
====
